---- MODULE Spec2Model ----
(***************************************************************************)
(* KeyCRM -> Checkbox catalog reconciliation and Checkbox -> KeyCRM sale   *)
(* ingestion (izavoob/webservice).                                         *)
(*                                                                         *)
(* Three specifications share this module:                                 *)
(*   SpecMapper  - the pure functions of utils/mapper.js applied to        *)
(*                 bounded inputs;                                         *)
(*   SpecWebhook - POST /webhook/checkbox with the CRM as order store;     *)
(*   Spec        - GET /sync-products against the POS catalog.             *)
(*                                                                         *)
(* Strings the code inspects character by character (sku, barcode, name,   *)
(* code) are sequences of one-character strings; null, undefined and ""    *)
(* are all the empty sequence, which is how the code's truthiness tests    *)
(* (`unit.sku && ...`, `!unit.name`, `unit.name || ...`) treat them.        *)
(***************************************************************************)
EXTENDS Integers, Sequences, FiniteSets, TLC

VARIABLES
    unit,           \* mapper: the KeyCRM unit handed to a mapper function
    existingGood,   \* mapper: the Checkbox good handed to needsUpdate
    call,           \* mapper: which function has been applied ("none" before)
    result,         \* mapper: what it returned
    webhookSecret,  \* process.env.CHECKBOX_WEBHOOK_SECRET ("" when unset)
    cashierId,      \* services/checkbox.js: cashierId ("null" when unknown)
    reqs,           \* webhook: one record per POST /webhook/checkbox call
    orders,         \* KeyCRM: the orders it holds
    catalog,        \* KeyCRM: the products it holds, offers nested
    posGoods,       \* Checkbox: the goods catalog
    posGroups,      \* Checkbox: the goods groups
    runs,           \* sync: one record per GET /sync-products call
    jwtToken,       \* services/checkbox.js: jwtToken, as the number of the sign-in
    posCalls,       \* services/checkbox.js: the call under withRetry, per caller
    groupCache,     \* services/checkbox.js: groupCache of the getOrCreateGroup revision
    faults          \* remote failures injected so far

varsM == <<unit, existingGood, call, result>>

varsW == <<webhookSecret, cashierId, reqs, orders>>

varsS == <<catalog, posGoods, posGroups, runs>>

varsA == <<jwtToken, posCalls, groupCache>>

vars == <<varsM, varsW, varsS, varsA, faults>>

----------------------------------------------------------------------------
(* Bounds of the model.                                                    *)

\* Longest enumerated tail of a product name (characters).
MaxTail == 2

\* Most sold lines on one receipt.
MaxLines == 2

\* Webhook calls that may be in flight together (SpecRetry).
MaxDeliveries == 2

\* Remote calls that may fail in one behaviour.
MaxFaults == 1

\* Reconciliation runs in one behaviour.
MaxRuns == 2

\* Checkbox calls made under withRetry in one behaviour (SpecAuth).
MaxCalls == 2

----------------------------------------------------------------------------
(* Characters.                                                             *)

LowerLetters ==
    <<"a","b","c","d","e","f","g","h","i","j","k","l","m",
      "n","o","p","q","r","s","t","u","v","w","x","y","z">>

UpperLetters ==
    <<"A","B","C","D","E","F","G","H","I","J","K","L","M",
      "N","O","P","Q","R","S","T","U","V","W","X","Y","Z">>

Digits == {"0","1","2","3","4","5","6","7","8","9"}

Range(s) == {s[i] : i \in DOMAIN s}

\* String.prototype.toLowerCase on one character.
LowerChar(c) ==
    IF c \in Range(UpperLetters)
      THEN LowerLetters[CHOOSE i \in DOMAIN UpperLetters : UpperLetters[i] = c]
      ELSE c

\* \w of a JavaScript regular expression without the u flag.
IsWordChar(c) ==
    c \in Range(LowerLetters) \cup Range(UpperLetters) \cup Digits \cup {"_"}

\* \s (only the blank is used by the inputs).
IsSpace(c) == c = " "

ToLowerCase(s) == [i \in DOMAIN s |-> LowerChar(s[i])]

\* s without its longest prefix and suffix of characters of the set drop.
StripEnds(s, drop) ==
    LET keep == {i \in DOMAIN s : s[i] \notin drop}
    IN  IF keep = {} THEN <<>>
        ELSE SubSeq(s, CHOOSE i \in keep : \A j \in keep : i <= j,
                       CHOOSE i \in keep : \A j \in keep : i >= j)

\* String.prototype.trim
Trim(s) == StripEnds(s, {c \in Range(s) : IsSpace(c)})

\* String.prototype.slice(0, n)
Slice(s, n) == IF Len(s) <= n THEN s ELSE SubSeq(s, 1, n)

----------------------------------------------------------------------------
(* utils/mapper.js                                                         *)

\* .replace(/[^\w\s-]/g, '')
StripSpecial(s) ==
    SelectSeq(s, LAMBDA c : IsWordChar(c) \/ IsSpace(c) \/ c = "-")

\* .replace(/[\s_]+/g, '-') : every maximal run of blanks and underscores
\* becomes one hyphen.
IsSep(c) == IsSpace(c) \/ c = "_"

\* The last character of a run stands for the run; the others are dropped.
CollapseSeparators(s) ==
    LET marked == [i \in DOMAIN s |->
                     IF ~IsSep(s[i]) THEN s[i]
                     ELSE IF i < Len(s) /\ IsSep(s[i + 1]) THEN "" ELSE "-"]
    IN  SelectSeq(marked, LAMBDA c : c # "")

\* .replace(/^-+|-+$/g, '')
TrimHyphens(s) == StripEnds(s, {"-"})

slugify(str) ==
    TrimHyphens(CollapseSeparators(StripSpecial(ToLowerCase(str))))

\* Checkbox code max, the argument of .slice(0, 150).
SliceLen == 150

\* `${unit.id}` : ids are single digits here.
IdString(id) == <<CHOOSE d \in Digits : d = ToString(id)>>

ProductDash == <<"p","r","o","d","u","c","t","-">>

ProductSpace == <<"P","r","o","d","u","c","t"," ">>

\* Mutant of deriveCode: barcode takes precedence over the SKU.
deriveCodeBarcodeFirst(u) ==
    IF Trim(u.barcode) # <<>> THEN Trim(u.barcode)
    ELSE IF Trim(u.sku) # <<>> THEN Trim(u.sku)
    ELSE Slice(slugify(IF u.name # <<>> THEN u.name
                       ELSE ProductDash \o IdString(u.id)), SliceLen)

deriveCode(u) ==
    IF u.sku # <<>> /\ Trim(u.sku) # <<>> THEN Trim(u.sku)
    ELSE IF u.barcode # <<>> /\ Trim(u.barcode) # <<>> THEN Trim(u.barcode)
    ELSE Slice(slugify(IF u.name # <<>> THEN u.name
                       ELSE ProductDash \o IdString(u.id)), SliceLen)

\* process.env.CHECKBOX_TAX_CODES split on commas; unset here, so [].
TaxCodes == <<>>

\* Prices are decimal UAH given in thousandths (19990 is 19.99).  The inputs
\* whose product with 100 is, as an IEEE-754 double, just below a .5 tie
\* although the decimal value is exactly on it (1.005 * 100 is
\* 100.49999999999999).
FloatBelowHalf == {1005}

\* Math.round((unit.price || 0) * 100) : kopecks.
MathRound100(p) ==
    IF p % 10 = 5 /\ p \in FloatBelowHalf THEN p \div 10 ELSE (p + 5) \div 10

\* unit.name || `Product ${unit.id}`
DisplayName(u) == IF u.name # <<>> THEN u.name ELSE ProductSpace \o IdString(u.id)

\* The function takes three parameters; a fourth argument (the group id the
\* sync route passes) is dropped by the call.
toCheckboxGood(u, productId, isOffer) ==
    [ name        |-> DisplayName(u),
      code        |-> deriveCode(u),
      price       |-> MathRound100(u.price),
      type        |-> "PRODUCT",
      is_weight   |-> FALSE,
      tax_codes   |-> TaxCodes,
      external_id |-> IF isOffer THEN <<"keycrm_offer", u.id>>
                                 ELSE <<"keycrm_product", productId>>,
      barcode     |-> IF u.barcode # <<>> /\ Trim(u.barcode) # <<>>
                        THEN Trim(u.barcode) ELSE <<>> ]

\* Mutant of needsUpdate: the name is not compared.
needsUpdatePriceOnly(checkboxGood, keycrmUnit) ==
    checkboxGood.price # MathRound100(keycrmUnit.price)

needsUpdate(checkboxGood, keycrmUnit) ==
    \/ checkboxGood.price # MathRound100(keycrmUnit.price)
    \/ checkboxGood.name # DisplayName(keycrmUnit)

BlueMug == <<"B","l","u","e"," ","M","u","g"," ","#","2","!">>

Widget == <<"W","i","d","g","e","t">>

SkuA1 == <<"A","1">>

\* A decimal number n / d, as the divisions by 1000 and by 100 produce it.
Ratio(n, d) == [num |-> n, den |-> d]

Unknown == <<"U","n","k","n","o","w","n">>

\* The offer handed to toKeycrmProduct: null (found = FALSE), a KeyCRM offer,
\* or the {sku, product} object built from a product found by name.
NoOffer == [found |-> FALSE, sku |-> <<>>, hasProduct |-> FALSE, productName |-> <<>>]

\* goodItem.good.* are the line's code, barcode, name and price fields; a
\* missing good object leaves them all empty.
\* Mutant of toKeycrmProduct: the quantity is not divided by 1000.
toKeycrmProductRawQuantity(goodItem, offer) ==
    [ sku      |-> IF offer.found
                     THEN (IF offer.sku # <<>> THEN offer.sku ELSE goodItem.code)
                     ELSE goodItem.code,
      name     |-> IF goodItem.name # <<>> THEN goodItem.name
                   ELSE IF offer.found /\ offer.hasProduct THEN offer.productName
                   ELSE Unknown,
      price    |-> Ratio(IF goodItem.price # 0 THEN goodItem.price
                         ELSE goodItem.total_sum, 100),
      quantity |-> Ratio(IF goodItem.quantity # 0 THEN goodItem.quantity ELSE 1000,
                         1) ]

toKeycrmProduct(goodItem, offer) ==
    [ sku      |-> IF offer.found
                     THEN (IF offer.sku # <<>> THEN offer.sku ELSE goodItem.code)
                     ELSE goodItem.code,
      name     |-> IF goodItem.name # <<>> THEN goodItem.name
                   ELSE IF offer.found /\ offer.hasProduct THEN offer.productName
                   ELSE Unknown,
      price    |-> Ratio(IF goodItem.price # 0 THEN goodItem.price
                         ELSE goodItem.total_sum, 100),
      quantity |-> Ratio(IF goodItem.quantity # 0 THEN goodItem.quantity ELSE 1000,
                         1000) ]

----------------------------------------------------------------------------
(* services/keycrm.js: the reads of the sale pipeline, against a fixed     *)
(* KeyCRM catalog.                                                         *)

SkuB1 == <<"B","1">>

Barcode482 == <<"4","8","2">>

SkuK1 == <<"K","1">>

Barcode9 == <<"9">>

Kettle == <<"K","e","t","t","l","e">>

SkuP1 == <<"P","1">>

Pot == <<"P","o","t">>

CrmOffers ==
    << [id |-> 31, sku |-> SkuA1, barcode |-> <<>>, productName |-> Widget],
       [id |-> 32, sku |-> SkuB1, barcode |-> Barcode482, productName |-> BlueMug],
       [id |-> 33, sku |-> SkuP1, barcode |-> <<>>, productName |-> Pot],
       [id |-> 34, sku |-> SkuK1, barcode |-> Barcode9, productName |-> Kettle] >>

CrmProducts ==
    << [id |-> 1, name |-> Widget, sku |-> SkuA1],
       [id |-> 2, name |-> BlueMug, sku |-> <<>>],
       [id |-> 3, name |-> Pot, sku |-> SkuP1],
       [id |-> 4, name |-> Kettle, sku |-> SkuK1] >>

FirstIndex(Pick) ==
    IF Pick = {} THEN 0 ELSE CHOOSE i \in Pick : \A j \in Pick : i <= j

AsOffer(o) ==
    [found |-> TRUE, sku |-> o.sku, hasProduct |-> TRUE, productName |-> o.productName]

\* GET /offers?filter[sku]=...&limit=1 : res.data.data[0] || null
getOfferBySku(sku) ==
    LET k == FirstIndex({i \in DOMAIN CrmOffers : CrmOffers[i].sku = sku})
    IN  IF k = 0 THEN NoOffer ELSE AsOffer(CrmOffers[k])

\* data.find((o) => o.barcode === barcode) over the pages
getOfferByBarcode(barcode) ==
    LET k == FirstIndex({i \in DOMAIN CrmOffers : CrmOffers[i].barcode = barcode})
    IN  IF k = 0 THEN NoOffer ELSE AsOffer(CrmOffers[k])

\* data.find((p) => p.name.toLowerCase().trim() === needle), then the
\* caller's offer = { sku: product.sku, product }
getProductByName(name) ==
    LET needle == Trim(ToLowerCase(name))
        k == FirstIndex({i \in DOMAIN CrmProducts :
                            Trim(ToLowerCase(CrmProducts[i].name)) = needle})
    IN  IF k = 0 THEN NoOffer
        ELSE [found |-> TRUE, sku |-> CrmProducts[k].sku, hasProduct |-> TRUE,
              productName |-> CrmProducts[k].name]

----------------------------------------------------------------------------
(* routes/webhook.js                                                       *)

\* The x-request-signature header.  A hex digest is named by the key and the
\* body it was computed over ("this" request's raw body or another one);
\* NoSig is a request without the header, JunkSig a value that is not hex.
NoSig == [key |-> "", over |-> "none"]

JunkSig == [key |-> "", over |-> "junk"]

\* crypto.createHmac('sha256', secret).update(rawBody).digest('hex')
Hmac(secret) == [key |-> secret, over |-> "this"]

\* timingSafeEqual throws on buffers of different length (a non-hex header
\* decodes to a shorter buffer); the catch returns false.
verifySignature(signature) ==
    IF webhookSecret = "" THEN TRUE
    ELSE IF signature.over = "junk" THEN FALSE
    ELSE signature = Hmac(webhookSecret)

\* A receipt without any field: what `body` itself is when it is taken for
\* the receipt and carries none.
EmptyReceipt ==
    [id |-> "null", type |-> "", order_id |-> "null", goods |-> <<>>,
     cashier |-> "null", total_sum |-> 0]

\* body.callback || body.notification_type || body.type || ''
callbackType(body) ==
    IF body.callback # "" THEN body.callback
    ELSE IF body.at = "self" THEN body.rc.type
    ELSE ""

\* callbackType.toLowerCase().includes('receipt'), on the values in use.
IncludesReceipt(t) == t \in {"receipt_notification", "RECEIPT"}

\* body.receipt || (callbackType includes 'receipt' ? body.data || body : null)
HasReceipt(body) == body.at = "receipt" \/ IncludesReceipt(callbackType(body))

ReceiptOf(body) == IF body.at = "none" THEN EmptyReceipt ELSE body.rc

\* String.prototype.toUpperCase on the receipt types in use.
ToUpperCase(t) == IF t = "sell" THEN "SELL" ELSE t

\* (receipt.goods || []).length > 0 && every(g => g.good_id == null)
allGoodsHaveNullId(receipt) ==
    /\ Len(receipt.goods) > 0
    /\ \A i \in DOMAIN receipt.goods : receipt.goods[i].good_id = "null"

\* Mutant of CashierMismatch: an unknown identity counts as a mismatch.
CashierMismatchStrict(receipt) == receipt.cashier # cashierId

\* ourCashierId && receiptCashierId && receiptCashierId !== ourCashierId
CashierMismatch(receipt) ==
    /\ cashierId # "null"
    /\ receipt.cashier # "null"
    /\ receipt.cashier # cashierId

\* Mutant of FilterReason: the order_id guard is missing.
FilterReasonNoOrderGuard(body) ==
    IF ~HasReceipt(body) THEN "no receipt object found"
    ELSE LET receipt == ReceiptOf(body) IN
        IF ToUpperCase(receipt.type) # "" /\ ToUpperCase(receipt.type) # "SELL"
          THEN "receipt.type"
        ELSE IF allGoodsHaveNullId(receipt) THEN "all good_id null"
        ELSE IF CashierMismatch(receipt) THEN "cashier mismatch"
        ELSE ""

\* Mutant of FilterReason: the good_id guard stands before the order_id guard.
FilterReasonGoodsFirst(body) ==
    IF ~HasReceipt(body) THEN "no receipt object found"
    ELSE LET receipt == ReceiptOf(body) IN
        IF ToUpperCase(receipt.type) # "" /\ ToUpperCase(receipt.type) # "SELL"
          THEN "receipt.type"
        ELSE IF allGoodsHaveNullId(receipt) THEN "all good_id null"
        ELSE IF receipt.order_id # "null" THEN "fiscalization receipt"
        ELSE IF CashierMismatch(receipt) THEN "cashier mismatch"
        ELSE ""

\* The guards of router.post('/') in order; "" when the receipt is accepted.
FilterReason(body) ==
    IF ~HasReceipt(body) THEN "no receipt object found"
    ELSE LET receipt == ReceiptOf(body) IN
        IF ToUpperCase(receipt.type) # "" /\ ToUpperCase(receipt.type) # "SELL"
          THEN "receipt.type"
        ELSE IF receipt.order_id # "null" THEN "fiscalization receipt"
        ELSE IF allGoodsHaveNullId(receipt) THEN "all good_id null"
        ELSE IF CashierMismatch(receipt) THEN "cashier mismatch"
        ELSE ""

\* Number(process.env.KEYCRM_PAYMENT_METHOD_ID || 2)
PaymentMethodId == 2

\* Number(process.env.KEYCRM_ORDER_STATUS_ID || 12)
StatusId == 12

\* Number(process.env.KEYCRM_BUYER_ID || 4)
BuyerId == 4

\* The order payload of processReceipt (ordered_at, a reformatted copy of
\* receipt.created_at, is left out).  payments = <<>> stands for a payload
\* without a payments field.
\* Mutant of OrderPayload: the payment line is there whatever the total.
OrderPayloadAlwaysPaid(receipt, products) ==
    [ source_uuid |-> receipt.id,
      buyer       |-> "buyerEmail",
      products    |-> products,
      payments    |-> << [payment_method_id |-> PaymentMethodId,
                          amount |-> Ratio(receipt.total_sum, 100),
                          status |-> "paid"] >> ]

OrderPayload(receipt, products) ==
    [ source_uuid |-> receipt.id,
      buyer       |-> "buyerEmail",
      products    |-> products,
      payments    |-> IF receipt.total_sum > 0
                        THEN << [payment_method_id |-> PaymentMethodId,
                                 amount |-> Ratio(receipt.total_sum, 100),
                                 status |-> "paid"] >>
                        ELSE <<>> ]

NoResponse == [status |-> 0, message |-> "", id |-> 0]

\* A call that has not arrived yet.
NoBody == [callback |-> "", at |-> "none", rc |-> EmptyReceipt]

NewReq ==
    [ pc        |-> "new",      \* where the handler stands
      body      |-> NoBody,     \* req.body
      sig       |-> NoSig,      \* req.headers['x-request-signature']
      verdict   |-> "none",     \* rejected, ignored or accepted
      reason    |-> "",         \* the reason sent with an ignored event
      responses |-> <<>>,       \* HTTP statuses sent on res, in order
      i         |-> 0,          \* index of the line being resolved
      page      |-> 1,          \* page of the paginated read in progress
      products  |-> <<>>,       \* the product lines built so far
      orderId   |-> 0,          \* order.id returned by createOrder
      createResp |-> NoResponse, \* what KeyCRM answered to createOrder
      calls     |-> <<>>,       \* KeyCRM calls issued for this request
      lookups   |-> <<>>,       \* the lookups made, with line and outcome
      sent      |-> <<>>,       \* the order payloads sent to createOrder
      log       |-> <<>> ]      \* stages entered, "response" and KeyCRM calls,
                                \* in the order they happened

\* The loop of processReceipt between two awaits: from line i on, up to the
\* next lookup, to createOrder, or to the early return without products.
RECURSIVE Proceed(_, _)
RECURSIVE FinishLine(_, _, _)

AfterBarcode(q, i) ==
    IF ReceiptOf(q.body).goods[i].name # <<>>
      THEN [q EXCEPT !.pc = "name", !.i = i]
      ELSE FinishLine(q, i, NoOffer)

AfterSku(q, i) ==
    IF ReceiptOf(q.body).goods[i].barcode # <<>>
      THEN [q EXCEPT !.pc = "barcode", !.i = i]
      ELSE AfterBarcode(q, i)

StartLine(q, i) ==
    IF ReceiptOf(q.body).goods[i].code # <<>>
      THEN [q EXCEPT !.pc = "sku", !.i = i]
      ELSE AfterSku(q, i)

\* Mutant of KeepLine: only a line that a lookup resolved is pushed.
KeepLineResolvedOnly(q, goodItem, offer) ==
    IF ~offer.found
      THEN q
      ELSE [q EXCEPT !.products = Append(@, toKeycrmProduct(goodItem, offer))]

\* Mutant of KeepLine: a line that cannot be identified is pushed as well.
KeepLineAlways(q, goodItem, offer) ==
    [q EXCEPT !.products = Append(@, toKeycrmProduct(goodItem, offer))]

\* if (!offer && !good.code && !good.name) continue; else products.push(...)
KeepLine(q, goodItem, offer) ==
    IF ~offer.found /\ goodItem.code = <<>> /\ goodItem.name = <<>>
      THEN q
      ELSE [q EXCEPT !.products = Append(@, toKeycrmProduct(goodItem, offer))]

FinishLine(q, i, offer) ==
    Proceed(KeepLine(q, ReceiptOf(q.body).goods[i], offer), i + 1)

Proceed(q, i) ==
    IF i <= Len(ReceiptOf(q.body).goods) THEN StartLine(q, i)
    ELSE IF q.products = <<>>
      THEN [q EXCEPT !.pc = "SKIPPED", !.i = i, !.log = Append(@, "SKIPPED")]
    ELSE [q EXCEPT !.pc = "create", !.i = i, !.log = Append(@, "BUILD")]

\* The catch of router.post: the error is logged, nothing is sent.
\* Mutant of FailTail: the catch answers 500.
FailTailResponds(q) ==
    [q EXCEPT !.pc = "FAILED", !.responses = Append(@, 500),
              !.log = @ \o <<"FAILED", "response">>]

FailTail(q) == [q EXCEPT !.pc = "FAILED", !.log = Append(@, "FAILED")]

\* router.post('/') up to the first await.
\* Mutant of HandlePost: processReceipt is awaited before res.json.
HandlePostRespondsLate(body, sig) ==
    LET q == [NewReq EXCEPT !.body = body, !.sig = sig,
                            !.log = <<"RECEIVED", "SIGNATURE_CHECK">>]
    IN  IF sig # NoSig /\ ~verifySignature(sig)
          THEN [q EXCEPT !.pc = "REJECTED", !.verdict = "rejected",
                         !.responses = <<400>>,
                         !.log = @ \o <<"REJECTED", "response">>]
        ELSE IF FilterReason(body) # ""
          THEN [q EXCEPT !.pc = "IGNORED", !.verdict = "ignored",
                         !.reason = FilterReason(body), !.responses = <<200>>,
                         !.log = @ \o <<"FILTER", "IGNORED", "response">>]
        ELSE Proceed([q EXCEPT !.verdict = "accepted",
                               !.log = @ \o <<"FILTER", "RESOLVE">>], 1)

HandlePost(body, sig) ==
    LET q == [NewReq EXCEPT !.body = body, !.sig = sig,
                            !.log = <<"RECEIVED", "SIGNATURE_CHECK">>]
    IN  IF sig # NoSig /\ ~verifySignature(sig)
          THEN [q EXCEPT !.pc = "REJECTED", !.verdict = "rejected",
                         !.responses = <<400>>,
                         !.log = @ \o <<"REJECTED", "response">>]
        ELSE IF FilterReason(body) # ""
          THEN [q EXCEPT !.pc = "IGNORED", !.verdict = "ignored",
                         !.reason = FilterReason(body), !.responses = <<200>>,
                         !.log = @ \o <<"FILTER", "IGNORED", "response">>]
        ELSE Proceed([q EXCEPT !.verdict = "accepted", !.responses = <<200>>,
                               !.log = @ \o <<"FILTER", "response", "RESOLVE">>], 1)

\* What KeyCRM answers to POST /order: it refuses a second order with a
\* source_uuid it already holds (422, message naming source_uuid).
CrmHolds(uuid) == \E k \in DOMAIN orders : orders[k].payload.source_uuid = uuid

CrmCreateResponses(payload) ==
    IF CrmHolds(payload.source_uuid)
      THEN {[status |-> 422, message |-> "source_uuid", id |-> 0]}
      ELSE {[status |-> 200, message |-> "", id |-> Len(orders) + 1]}

\* Failures of POST /order other than the duplicate key.
CrmCreateFailures ==
    {[status |-> 500, message |-> "error", id |-> 0],
     [status |-> 422, message |-> "validation", id |-> 0]}

\* msg.toLowerCase().includes('source_uuid')
NamesSourceUuid(message) == message = "source_uuid"

\* Mutant of AfterCreate: the duplicate-key answer is thrown like any error.
AfterCreateDuplicateThrows(q, resp) ==
    IF resp.status = 200
      THEN IF resp.id # 0
             THEN [q EXCEPT !.pc = "update", !.orderId = resp.id,
                            !.log = Append(@, "SUBMITTED")]
             ELSE [q EXCEPT !.pc = "SUBMITTED", !.log = Append(@, "SUBMITTED")]
      ELSE FailTail(q)

\* The try/catch around keycrm.createOrder in processReceipt.
AfterCreate(q, resp) ==
    IF resp.status = 200
      THEN IF resp.id # 0
             THEN [q EXCEPT !.pc = "update", !.orderId = resp.id,
                            !.log = Append(@, "SUBMITTED")]
             ELSE [q EXCEPT !.pc = "SUBMITTED", !.log = Append(@, "SUBMITTED")]
    ELSE IF resp.status = 422 /\ NamesSourceUuid(resp.message)
      THEN [q EXCEPT !.pc = "DUPLICATE", !.log = Append(@, "SUBMITTED")]
    ELSE FailTail(q)

----------------------------------------------------------------------------
(* The webhook's actions.  A delivery is handled up to its first await in  *)
(* one step; every later step is the completion of one awaited KeyCRM call *)
(* followed by the code up to the next await.                              *)

Issue(q, op) == [q EXCEPT !.calls = Append(@, op), !.log = Append(@, op)]

\* The outcome of the lookup just issued for line q.i.
Looked(q, found) ==
    [q EXCEPT !.lookups = Append(@, [line |-> q.i, op |-> q.calls[Len(q.calls)],
                                     found |-> found])]

Deliver(r, bodies, sigs) ==
    /\ reqs[r].pc = "new"
    /\ \E body \in bodies, sig \in sigs :
          reqs' = [reqs EXCEPT ![r] = HandlePost(body, sig)]
    /\ UNCHANGED <<webhookSecret, cashierId, orders, faults, varsM, varsS, varsA>>

\* Mutant of SkuLookup: the later lookups run whatever this one returned.
SkuLookupThenAll(r) ==
    /\ reqs[r].pc = "sku"
    /\ LET q == Issue(reqs[r], "getOfferBySku")
           goodItem == ReceiptOf(q.body).goods[q.i]
       IN  /\ reqs' = [reqs EXCEPT ![r] =
                        AfterSku(Looked(q, getOfferBySku(goodItem.code).found), q.i)]
           /\ UNCHANGED faults
    /\ UNCHANGED <<webhookSecret, cashierId, orders, varsM, varsS, varsA>>

\* getOfferBySku swallows every error and returns null.
SkuLookup(r) ==
    /\ reqs[r].pc = "sku"
    /\ LET q == Issue(reqs[r], "getOfferBySku")
           goodItem == ReceiptOf(q.body).goods[q.i]
       IN  \/ /\ LET offer == getOfferBySku(goodItem.code)
                 IN  reqs' = [reqs EXCEPT ![r] =
                                IF offer.found
                                  THEN FinishLine(Looked(q, TRUE), q.i, offer)
                                  ELSE AfterSku(Looked(q, FALSE), q.i)]
              /\ UNCHANGED faults
           \/ /\ faults < MaxFaults
              /\ faults' = faults + 1
              /\ reqs' = [reqs EXCEPT ![r] = AfterSku(Looked(q, FALSE), q.i)]
    /\ UNCHANGED <<webhookSecret, cashierId, orders, varsM, varsS, varsA>>

BarcodeLookup(r) ==
    /\ reqs[r].pc = "barcode"
    /\ LET q == Issue(reqs[r], "getOfferByBarcode")
           goodItem == ReceiptOf(q.body).goods[q.i]
       IN  \/ /\ LET offer == getOfferByBarcode(goodItem.barcode)
                 IN  reqs' = [reqs EXCEPT ![r] =
                                IF offer.found
                                  THEN FinishLine(Looked(q, TRUE), q.i, offer)
                                  ELSE AfterBarcode(Looked(q, FALSE), q.i)]
              /\ UNCHANGED faults
           \/ /\ faults < MaxFaults
              /\ faults' = faults + 1
              /\ reqs' = [reqs EXCEPT ![r] = FailTail(Looked(q, FALSE))]
    /\ UNCHANGED <<webhookSecret, cashierId, orders, varsM, varsS, varsA>>

NameLookup(r) ==
    /\ reqs[r].pc = "name"
    /\ LET q == Issue(reqs[r], "getProductByName")
           goodItem == ReceiptOf(q.body).goods[q.i]
       IN  \/ /\ LET product == getProductByName(goodItem.name)
                 IN  reqs' = [reqs EXCEPT ![r] =
                                FinishLine(Looked(q, product.found), q.i, product)]
              /\ UNCHANGED faults
           \/ /\ faults < MaxFaults
              /\ faults' = faults + 1
              /\ reqs' = [reqs EXCEPT ![r] = FailTail(Looked(q, FALSE))]
    /\ UNCHANGED <<webhookSecret, cashierId, orders, varsM, varsS, varsA>>

CreateOrder(r) ==
    /\ reqs[r].pc = "create"
    /\ LET payload == OrderPayload(ReceiptOf(reqs[r].body), reqs[r].products)
           q == [Issue(reqs[r], "createOrder") EXCEPT !.sent = Append(@, payload)]
       IN  \/ /\ \E resp \in CrmCreateResponses(payload) :
                    /\ reqs' = [reqs EXCEPT ![r] =
                                  AfterCreate([q EXCEPT !.createResp = resp], resp)]
                    /\ orders' = IF resp.status = 200
                                   THEN Append(orders, [id |-> resp.id,
                                                        payload |-> payload,
                                                        receipt |-> ReceiptOf(q.body).id,
                                                        status_id |-> 0,
                                                        client_id |-> 0])
                                   ELSE orders
              /\ UNCHANGED faults
           \/ /\ faults < MaxFaults
              /\ faults' = faults + 1
              /\ \E resp \in CrmCreateFailures :
                    reqs' = [reqs EXCEPT ![r] =
                               AfterCreate([q EXCEPT !.createResp = resp], resp)]
              /\ UNCHANGED orders
    /\ UNCHANGED <<webhookSecret, cashierId, varsM, varsS, varsA>>

\* Mutant of UpdateOrder: a failed update is attempted again.
UpdateOrderRetries(r) ==
    /\ reqs[r].pc = "update"
    /\ LET q == Issue(reqs[r], "updateOrder")
           k == CHOOSE k \in DOMAIN orders : orders[k].id = q.orderId
       IN  \/ /\ orders' = [orders EXCEPT ![k].status_id = StatusId,
                                          ![k].client_id = BuyerId]
              /\ reqs' = [reqs EXCEPT ![r] = [q EXCEPT !.pc = "SUBMITTED"]]
              /\ UNCHANGED faults
           \/ /\ faults < MaxFaults
              /\ faults' = faults + 1
              /\ reqs' = [reqs EXCEPT ![r] = q]
              /\ UNCHANGED orders
    /\ UNCHANGED <<webhookSecret, cashierId, varsM, varsS, varsA>>

\* After the 5 s timer: keycrm.updateOrder(order.id, {status_id, client_id}).
UpdateOrder(r) ==
    /\ reqs[r].pc = "update"
    /\ LET q == Issue(reqs[r], "updateOrder")
           k == CHOOSE k \in DOMAIN orders : orders[k].id = q.orderId
       IN  \/ /\ orders' = [orders EXCEPT ![k].status_id = StatusId,
                                          ![k].client_id = BuyerId]
              /\ reqs' = [reqs EXCEPT ![r] = [q EXCEPT !.pc = "SUBMITTED"]]
              /\ UNCHANGED faults
           \/ /\ faults < MaxFaults
              /\ faults' = faults + 1
              /\ reqs' = [reqs EXCEPT ![r] = FailTail(q)]
              /\ UNCHANGED orders
    /\ UNCHANGED <<webhookSecret, cashierId, varsM, varsS, varsA>>

----------------------------------------------------------------------------
(* SpecMapper: the mapper functions applied to bounded inputs.             *)

Alphabet == {"a", "B", "2", " ", "_", "-", "#"}

Tails == UNION {[1..k -> Alphabet] : k \in 0..MaxTail}

Pad(k) == [i \in 1..k |-> "a"]

\* Names short enough to stay whole and names that reach the cut at SliceLen.
PadLens == {0, SliceLen - 1}

Names == {Pad(k) \o t : k \in PadLens, t \in Tails} \cup {BlueMug, Widget}

Skus == {<<>>, <<" ">>, SkuA1, <<" ","A","1"," ">>}

Barcodes == {<<>>, <<" ">>, <<"4","8","2">>, <<"4","8","2"," ">>}

Prices == {0, 19990, 1005, 125, 1994, 1996}

MapperUnit(id, sku, barcode, name, price) ==
    [id |-> id, sku |-> sku, barcode |-> barcode, name |-> name, price |-> price]

MapperUnits ==
    {MapperUnit(7, s, b, n, 19990) : s \in Skus, b \in Barcodes, n \in {<<>>, Widget, BlueMug}}
    \cup {MapperUnit(7, s, b, n, 19990) : s \in {<<>>, <<" ">>}, b \in {<<>>, <<" ">>}, n \in Names}
    \cup {MapperUnit(7, SkuA1, <<>>, n, p) : n \in {<<>>, Widget}, p \in Prices}

\* Goods as the POS returns them: id, code, name, price in kopecks, group.
MapperGoods ==
    {[id |-> 1, code |-> SkuA1, name |-> n, price |-> p, group_id |-> 0] :
        n \in {Widget, BlueMug, ProductSpace \o IdString(7)},
        p \in {0, 13, 100, 101, 199, 200, 1999}}

NoGood == [id |-> 0, code |-> <<>>, name |-> <<>>, price |-> 0, group_id |-> 0]

MapperIdle ==
    /\ unit = MapperUnit(7, <<>>, <<>>, <<>>, 0)
    /\ existingGood = NoGood
    /\ call = "idle"
    /\ result = <<>>

WebhookIdle ==
    /\ webhookSecret = ""
    /\ cashierId = "null"
    /\ reqs = <<>>
    /\ orders = <<>>

SyncIdle ==
    /\ catalog = <<>>
    /\ posGoods = <<>>
    /\ posGroups = <<>>
    /\ runs = <<>>

\* groupCache = null
NoCache == [loaded |-> FALSE, map |-> <<>>]

AuthIdle ==
    /\ jwtToken = 0
    /\ posCalls = <<>>
    /\ groupCache = NoCache

InitM ==
    /\ unit \in MapperUnits
    /\ existingGood = NoGood
    /\ call = "none"
    /\ result = <<>>
    /\ WebhookIdle
    /\ SyncIdle
    /\ AuthIdle
    /\ faults = 0

CallDeriveCode ==
    /\ call = "none"
    /\ call' = "deriveCode"
    /\ result' = deriveCode(unit)
    /\ UNCHANGED <<unit, existingGood, varsW, varsS, varsA, faults>>

CallToCheckboxGood ==
    /\ call = "none"
    /\ \E productId \in {unit.id, 9}, isOffer \in BOOLEAN :
          result' = toCheckboxGood(unit, productId, isOffer)
    /\ call' = "toCheckboxGood"
    /\ UNCHANGED <<unit, existingGood, varsW, varsS, varsA, faults>>

CallNeedsUpdate ==
    /\ call = "none"
    /\ \E g \in MapperGoods :
          /\ existingGood' = g
          /\ result' = needsUpdate(g, unit)
    /\ call' = "needsUpdate"
    /\ UNCHANGED <<unit, varsW, varsS, varsA, faults>>

NextM == CallDeriveCode \/ CallToCheckboxGood \/ CallNeedsUpdate

SpecMapper == InitM /\ [][NextM]_vars

----------------------------------------------------------------------------
(* SpecWebhook: one webhook call with a receipt drawn from a wide set.     *)
(* SpecRetry: up to MaxDeliveries calls in flight together, carrying a     *)
(* few receipts, so that the same receipt is delivered more than once.     *)

SoldLine(good_id, code, barcode, name, price, quantity, total_sum) ==
    [good_id |-> good_id, code |-> code, barcode |-> barcode, name |-> name,
     price |-> price, quantity |-> quantity, total_sum |-> total_sum]

SkuZZ == <<"Z","Z">>

\* A catalog good sold twice.
LineA1 == SoldLine("g1", SkuA1, <<>>, Widget, 1999, 2000, 3998)

\* A line of a fiscalization receipt: no catalog good behind it.
LineEcho == SoldLine("null", SkuA1, <<>>, Widget, 1999, 1000, 1999)

\* A catalog line whose good object is missing.
LineBare == SoldLine("g2", <<>>, <<>>, <<>>, 0, 0, 500)

LineBarcode == SoldLine("g3", <<>>, Barcode482, <<>>, 0, 1000, 700)

LineName == SoldLine("g4", SkuZZ, <<>>, <<"w","i","d","g","e","t"," ">>, 1999, 3000, 5997)

LineUnknown == SoldLine("g5", SkuZZ, <<>>, <<>>, 100, 1000, 100)

\* {good_id, good: {code: "A1"}, quantity: 2000}: neither good.price nor the
\* line's total_sum is given.
LineCodeOnly == SoldLine("g1", SkuA1, <<>>, <<>>, 0, 2000, 0)

\* A line with a name the CRM does not know and no code.
LineNameOnly == SoldLine("g6", <<>>, <<>>, <<"N","o","n","e">>, 100, 1000, 100)

SoldLines == {LineA1, LineEcho, LineBare, LineBarcode, LineName, LineUnknown}

GoodsLists == UNION {[1..k -> SoldLines] : k \in 0..MaxLines}

SaleReceipt(id, type, order_id, goods, cashier, total_sum) ==
    [id |-> id, type |-> type, order_id |-> order_id, goods |-> goods,
     cashier |-> cashier, total_sum |-> total_sum]

RichReceipts ==
    {SaleReceipt("r1", t, o, g, c, 3998) :
        t \in {"", "SELL", "sell", "RETURN"}, o \in {"null", "o9"},
        g \in GoodsLists, c \in {"null", "c1", "c2"}}
    \cup {SaleReceipt("r1", "SELL", "null", <<LineA1>>, "c1", 0),
          SaleReceipt("r1", "SELL", "null", <<LineCodeOnly>>, "c1", 3998),
          SaleReceipt("r1", "SELL", "null", <<LineNameOnly, LineUnknown>>, "c1", 200)}

ShapeReceipts ==
    {SaleReceipt("r1", t, "null", <<LineA1>>, "c1", 3998) : t \in {"SELL", "RETURN"}}

RichBodies ==
    {[callback |-> "receipt_notification", at |-> "receipt", rc |-> rc] :
        rc \in RichReceipts}
    \cup {[callback |-> c, at |-> a, rc |-> rc] :
            c \in {"", "shift_notification"}, a \in {"receipt", "data", "self"},
            rc \in ShapeReceipts}
    \cup {[callback |-> "receipt_notification", at |-> a, rc |-> rc] :
            a \in {"data", "self"}, rc \in ShapeReceipts}
    \cup {[callback |-> c, at |-> "none", rc |-> EmptyReceipt] :
            c \in {"", "shift_notification", "receipt_notification"}}

Signatures ==
    {NoSig, JunkSig, Hmac("k1"), Hmac("k2"), [key |-> "k1", over |-> "other"]}

RetryReceipts ==
    {SaleReceipt("r1", "SELL", "null", <<LineA1>>, "c1", 3998),
     SaleReceipt("r2", "SELL", "null", <<LineBarcode, LineName>>, "c1", 6697),
     SaleReceipt("r3", "SELL", "null", <<LineBare>>, "c1", 500)}

RetryBodies ==
    {[callback |-> "receipt_notification", at |-> "receipt", rc |-> rc] :
        rc \in RetryReceipts}

InitW ==
    /\ webhookSecret \in {"", "k1"}
    /\ cashierId \in {"null", "c1"}
    /\ reqs = [r \in 1..1 |-> NewReq]
    /\ orders = <<>>
    /\ faults = 0
    /\ MapperIdle
    /\ SyncIdle
    /\ AuthIdle

AsyncTail ==
    \/ \E r \in DOMAIN reqs : SkuLookup(r)
    \/ \E r \in DOMAIN reqs : BarcodeLookup(r)
    \/ \E r \in DOMAIN reqs : NameLookup(r)
    \/ \E r \in DOMAIN reqs : CreateOrder(r)
    \/ \E r \in DOMAIN reqs : UpdateOrder(r)

NextW ==
    \/ \E r \in DOMAIN reqs : Deliver(r, RichBodies, Signatures)
    \/ AsyncTail

SpecWebhook == InitW /\ [][NextW]_vars

InitR ==
    /\ webhookSecret = ""
    /\ cashierId = "c1"
    /\ reqs = [r \in 1..MaxDeliveries |-> NewReq]
    /\ orders = <<>>
    /\ faults = 0
    /\ MapperIdle
    /\ SyncIdle
    /\ AuthIdle

NextR ==
    \/ \E r \in DOMAIN reqs : Deliver(r, RetryBodies, {NoSig})
    \/ AsyncTail

SpecRetry == InitR /\ [][NextR]_vars

----------------------------------------------------------------------------
(* routes/sync.js: GET /sync-products, the catalog reconciler.             *)

\* keycrm.getProductCategories(): Map<id, {id, name, parent_id}>; ids are
\* the indices, parent_id 0 is none.
Tea == <<"T","e","a">>

Green == <<"G","r","e","e","n">>

Sencha == <<"S","e","n","c","h","a">>

Categories ==
    << [id |-> 1, name |-> Tea, parent_id |-> 0],
       [id |-> 2, name |-> Green, parent_id |-> 1],
       [id |-> 3, name |-> Sencha, parent_id |-> 2],
       [id |-> 4, name |-> <<" ","T","E","A"," ">>, parent_id |-> 0],
       [id |-> 5, name |-> Green, parent_id |-> 3] >>

NoCategories == <<>>

\* Mutant of GroupKey: the name is taken as it is.
GroupKeyRaw(name, parentId) == [name |-> name, parent |-> parentId]

\* The key of buildGroupMap and resolveGroupId:
\* `${name.toLowerCase().trim()}::${parentId}` with '' (here 0) for no parent.
GroupKey(name, parentId) == [name |-> Trim(ToLowerCase(name)), parent |-> parentId]

NoGroup == [id |-> 0, name |-> <<>>, parent_id |-> 0]

\* A JS Map: entries in insertion order, one per key.
MapHas(map, key) == \E i \in DOMAIN map : map[i].key = key

MapGet(map, key) ==
    IF MapHas(map, key)
      THEN map[CHOOSE i \in DOMAIN map : map[i].key = key].value
      ELSE NoGroup

\* Mutant of MapSet: nothing is stored.
MapSetForgets(map, key, value) == map

MapSet(map, key, value) ==
    IF MapHas(map, key)
      THEN [map EXCEPT ![CHOOSE i \in DOMAIN map : map[i].key = key].value = value]
      ELSE Append(map, [key |-> key, value |-> value])

RECURSIVE buildGroupMapFrom(_, _, _)
buildGroupMapFrom(groupList, i, map) ==
    IF i > Len(groupList) THEN map
    ELSE buildGroupMapFrom(groupList, i + 1,
            MapSet(map, GroupKey(groupList[i].name, groupList[i].parent_id),
                   groupList[i]))

buildGroupMap(groupList) == buildGroupMapFrom(groupList, 1, <<>>)

NewSummary == [created |-> 0, updated |-> 0, skipped |-> 0, errors |-> <<>>]

\* One GET /sync-products call.  pc is where the handler stands: at a remote
\* call it is about to make, or "done" once the response is sent.
NewRun ==
    [ pc            |-> "idle",
      authorized    |-> FALSE,      \* req.query.secret === SYNC_SECRET
      status        |-> 0,          \* HTTP status of the response
      bodyFields    |-> {},         \* field names of the response body
      keycrmCats    |-> NoCategories,
      groupMap      |-> <<>>,
      products      |-> <<>>,       \* what getAllProducts returned
      p             |-> 0,          \* index of the product being enumerated
      page          |-> 1,          \* page of the paginated read in progress
      offers        |-> <<>>,       \* offers gathered by getOffersByProduct
      units         |-> <<>>,
      k             |-> 0,          \* index of the unit being upserted
      found         |-> FALSE,      \* existing is not null
      existing      |-> NoGood,
      parentGroupId |-> 0,
      groupId       |-> 0,
      summary       |-> NewSummary,
      calls         |-> <<>>,       \* remote calls issued, in order
      beside        |-> {},         \* the runs in progress when this one began
      decided       |-> <<>> ]      \* what each unit was decided on

Called(run, op, k, arg, ok) ==
    [run EXCEPT !.calls = Append(@, [op |-> op, k |-> k, arg |-> arg, ok |-> ok])]

\* A call whose HTTP status matters to the caller.
Answered(run, op, k, arg, status) ==
    [run EXCEPT !.calls = Append(@, [op |-> op, k |-> k, arg |-> arg,
                                     ok |-> status = 200, status |-> status])]

PushError(run, who, reason) ==
    [run EXCEPT !.summary.errors = Append(@, [who |-> who, reason |-> reason])]

\* The em dash (U+2014), written "~": neither is a word character, a space
\* or a hyphen.
EmDash == "~"

\* `${product.name} <em dash> ${suffix}`, suffix joining the property values.
RECURSIVE JoinComma(_)
JoinComma(values) ==
    IF values = <<>> THEN <<>>
    ELSE IF Len(values) = 1 THEN values[1]
    ELSE values[1] \o <<",", " ">> \o JoinComma(Tail(values))

OfferName(offer, product) ==
    IF offer.properties # <<>>
      THEN product.name \o <<" ", EmDash, " ">> \o JoinComma(offer.properties)
      ELSE IF offer.name = <<>> THEN product.name ELSE offer.name

ProductUnit(product) ==
    [ unit       |-> MapperUnit(product.id, product.sku, product.barcode,
                                product.name, product.price),
      productId  |-> product.id,
      isOffer    |-> FALSE,
      categoryId |-> product.category_id ]

OfferUnit(offer, product) ==
    [ unit       |-> MapperUnit(offer.id, offer.sku, offer.barcode,
                                OfferName(offer, product), offer.price),
      productId  |-> product.id,
      isOffer    |-> TRUE,
      categoryId |-> product.category_id ]

\* Mutant of OfferUnits: the product is a unit beside its offers.
OfferUnitsAndProduct(product) ==
    <<ProductUnit(product)>> \o
    [i \in DOMAIN product.offers |-> OfferUnit(product.offers[i], product)]

OfferUnits(product) ==
    [i \in DOMAIN product.offers |-> OfferUnit(product.offers[i], product)]

\* The responses: after the loop, from the outer catch, from the auth guard.
SummaryFields == {"created", "updated", "skipped", "errors"}

\* res.json({ summary_ua, ...rest, elapsed_sec })
Finish(run) ==
    [run EXCEPT !.pc = "done", !.status = 200,
                !.bodyFields = {"summary_ua", "elapsed_sec"} \cup SummaryFields]

\* Mutant of Fatal: the outer catch answers like a completed run.
FatalAnswersOk(run) ==
    [run EXCEPT !.pc = "done", !.status = 200,
                !.bodyFields = {"summary_ua", "elapsed_sec"} \cup SummaryFields]

\* res.status(500).json({ error: err.message, ...summary })
Fatal(run) ==
    [run EXCEPT !.pc = "done", !.status = 500,
                !.bodyFields = {"error", "created_names"} \cup SummaryFields]

\* res.status(401).json({ error: 'Unauthorized: invalid secret' })
Unauthorized(run) ==
    [run EXCEPT !.pc = "done", !.status = 401, !.bodyFields = {"error"}]

\* Step 3 from unit k on, up to the next remote call: units without a name
\* or without a code are passed over.
\* Mutant of PassOver: a unit without a code is not counted in skipped.
PassOverUncounted(run, u) ==
    IF u.name = <<>> THEN PushError(run, u.id, "Missing name, skipped")
    ELSE PushError(run, u.id, "Empty code")

\* The two guards at the head of the loop body: a unit without a name gets
\* an error; a unit whose code is empty gets an error and counts as skipped.
PassOver(run, u) ==
    IF u.name = <<>> THEN PushError(run, u.id, "Missing name, skipped")
    ELSE [PushError(run, u.id, "Empty code") EXCEPT !.summary.skipped = @ + 1]

RECURSIVE NextUnit(_, _)
NextUnit(run, k) ==
    IF k > Len(run.units) THEN Finish([run EXCEPT !.k = k])
    ELSE LET u == run.units[k].unit IN
         IF u.name = <<>> \/ Trim(deriveCode(u)) = <<>>
           THEN NextUnit(PassOver(run, u), k + 1)
         ELSE [run EXCEPT !.pc = "lookup", !.k = k, !.found = FALSE,
                          !.existing = NoGood, !.parentGroupId = 0, !.groupId = 0]

\* Step 2 from product p on, up to the next getOffersByProduct call.
RECURSIVE Enumerate(_, _)
Enumerate(run, p) ==
    IF p > Len(run.products) THEN NextUnit([run EXCEPT !.p = p], 1)
    ELSE IF run.products[p].has_offers THEN [run EXCEPT !.pc = "offers", !.p = p]
    ELSE Enumerate([run EXCEPT !.units = Append(@, ProductUnit(run.products[p]))],
                   p + 1)

\* Mutant of Decide: a group that differs does not cause an update.
\* Mutant of Decide: an unchanged unit is passed without being counted.
DecideSkipsUncounted(run) ==
    LET u == run.units[run.k].unit
        noted == [run EXCEPT !.decided =
                     Append(@, [k |-> run.k, groupId |-> run.groupId,
                                found |-> run.found, existing |-> run.existing])]
    IN  IF ~run.found THEN [noted EXCEPT !.pc = "create"]
        ELSE IF \/ needsUpdate(run.existing, u)
                \/ (run.groupId # 0 /\ run.existing.group_id # run.groupId)
          THEN [noted EXCEPT !.pc = "update"]
        ELSE NextUnit(noted, run.k + 1)

\* Mutant of Decide: every unit goes to the create branch.
DecideAlwaysCreates(run) ==
    [run EXCEPT !.pc = "create",
                !.decided = Append(@, [k |-> run.k, groupId |-> run.groupId,
                                       found |-> run.found,
                                       existing |-> run.existing])]

DecideIgnoringGroup(run) ==
    LET u == run.units[run.k].unit
        noted == [run EXCEPT !.decided =
                     Append(@, [k |-> run.k, groupId |-> run.groupId,
                                found |-> run.found, existing |-> run.existing])]
    IN  IF ~run.found THEN [noted EXCEPT !.pc = "create"]
        ELSE IF needsUpdate(run.existing, u) THEN [noted EXCEPT !.pc = "update"]
        ELSE NextUnit([noted EXCEPT !.summary.skipped = @ + 1], run.k + 1)

\* The create / update / skip decision once the group id is known.
Decide(run) ==
    LET u == run.units[run.k].unit
        noted == [run EXCEPT !.decided =
                     Append(@, [k |-> run.k, groupId |-> run.groupId,
                                found |-> run.found, existing |-> run.existing])]
    IN  IF ~run.found THEN [noted EXCEPT !.pc = "create"]
        ELSE IF \/ needsUpdate(run.existing, u)
                \/ (run.groupId # 0 /\ run.existing.group_id # run.groupId)
          THEN [noted EXCEPT !.pc = "update"]
        ELSE NextUnit([noted EXCEPT !.summary.skipped = @ + 1], run.k + 1)

CategoryOf(run) ==
    LET categoryId == run.units[run.k].categoryId IN
    IF categoryId \in DOMAIN run.keycrmCats THEN run.keycrmCats[categoryId]
    ELSE [id |-> 0, name |-> <<>>, parent_id |-> 0]

ParentKey(run) ==
    GroupKey(run.keycrmCats[CategoryOf(run).parent_id].name, 0)

OwnKey(run) == GroupKey(CategoryOf(run).name, run.parentGroupId)

\* resolveGroupId from the category's own group on.
ResolveOwn(run) ==
    IF MapHas(run.groupMap, OwnKey(run))
      THEN Decide([run EXCEPT !.groupId = MapGet(run.groupMap, OwnKey(run)).id])
      ELSE [run EXCEPT !.pc = "ownGroup"]

\* Mutant of Resolve: the parent group is created without asking the map.
ResolveWithoutMap(run) ==
    LET cat == CategoryOf(run) IN
    IF cat.id = 0 THEN Decide(run)
    ELSE IF cat.parent_id \in DOMAIN run.keycrmCats
      THEN [run EXCEPT !.pc = "parentGroup"]
    ELSE ResolveOwn(run)

\* resolveGroupId from its start, up to the next createGroup call.
Resolve(run) ==
    LET cat == CategoryOf(run) IN
    IF cat.id = 0 THEN Decide(run)
    ELSE IF cat.parent_id \in DOMAIN run.keycrmCats
      THEN IF MapHas(run.groupMap, ParentKey(run))
             THEN ResolveOwn([run EXCEPT !.parentGroupId =
                                 MapGet(run.groupMap, ParentKey(run)).id])
             ELSE [run EXCEPT !.pc = "parentGroup"]
    ELSE ResolveOwn(run)

\* Checkbox GET /goods/by-code/{code}: the good, or 404.
HasGood(code) == \E i \in DOMAIN posGoods : posGoods[i].code = code

GoodByCode(code) == posGoods[CHOOSE i \in DOMAIN posGoods : posGoods[i].code = code]

\* Checkbox POST /goods: the good it stores for a payload.
StoredGood(payload) ==
    [ id       |-> Len(posGoods) + 1,
      code     |-> payload.code,
      name     |-> payload.name,
      price    |-> payload.price,
      group_id |-> 0 ]

\* Mutant of PutGood: the update replaces the whole collection by the one good.
PutGoodDropsOthers(id, payload) ==
    LET Updated(g) == g.id = id
    IN  SelectSeq([i \in DOMAIN posGoods |->
                     IF posGoods[i].id = id
                       THEN [posGoods[i] EXCEPT !.code = payload.code,
                                                !.name = payload.name,
                                                !.price = payload.price]
                       ELSE posGoods[i]], Updated)

\* Checkbox PUT /goods/{uuid}: the fields of the payload replace the stored ones.
PutGood(id, payload) ==
    [i \in DOMAIN posGoods |->
        IF posGoods[i].id = id
          THEN [posGoods[i] EXCEPT !.code = payload.code, !.name = payload.name,
                                   !.price = payload.price]
          ELSE posGoods[i]]

\* Mutant of StoredGroup: the group is nested under the newest group.
StoredGroupChained(name, parentGroupId) ==
    [id |-> Len(posGroups) + 1, name |-> name, parent_id |-> Len(posGroups)]

\* Checkbox POST /goods/groups: the group it stores and returns.
StoredGroup(name, parentGroupId) ==
    [id |-> Len(posGroups) + 1, name |-> name, parent_id |-> parentGroupId]

\* Statuses of a failed createGood: 422 is read as "already exists".
CreateGoodFailures == {422, 500}

\* The auth guard; runs are started one after another.
StartRun(r) ==
    /\ runs[r].pc = "idle"
    /\ IF r = 1 THEN TRUE ELSE runs[r - 1].pc = "done"
    /\ \E secretOk \in BOOLEAN :
          runs' = [runs EXCEPT ![r] =
                     IF secretOk THEN [@ EXCEPT !.pc = "prefetch", !.authorized = TRUE]
                                 ELSE Unauthorized(@)]
    /\ UNCHANGED <<catalog, posGoods, posGroups, faults, varsM, varsW, varsA>>

\* The auth guard of a run requested at any moment: the handler holds no
\* lock and looks at no other run.
StartRunConcurrently(r) ==
    /\ runs[r].pc = "idle"
    /\ \E secretOk \in BOOLEAN :
          runs' = [runs EXCEPT ![r] =
                     IF secretOk
                       THEN [@ EXCEPT !.pc = "prefetch", !.authorized = TRUE,
                                      !.beside = {s \in DOMAIN runs :
                                                    runs[s].pc \notin {"idle", "done"}}]
                       ELSE Unauthorized(@)]
    /\ UNCHANGED <<catalog, posGoods, posGroups, faults, varsM, varsW, varsA>>

\* Mutant of AfterPrefetchFailed: the two fetches are awaited one after the
\* other, so the categories are kept when only the group listing fails.
AfterPrefetchFailedKeepsCats(run, failed) ==
    [Called(run, failed, 0, <<>>, FALSE)
       EXCEPT !.pc = "products",
              !.keycrmCats = IF failed = "getGroups" THEN Categories ELSE NoCategories]

\* The catch around Promise.all: a warning, both maps stay empty.
AfterPrefetchFailed(run, failed) ==
    [Called(run, failed, 0, <<>>, FALSE) EXCEPT !.pc = "products"]

\* Step 1: Promise.all([getProductCategories(), getGroups()]); a failure of
\* either leaves both maps empty.
Prefetch(r) ==
    /\ runs[r].pc = "prefetch"
    /\ \/ /\ runs' = [runs EXCEPT ![r] =
                       [Called(Called(@, "getProductCategories", 0, <<>>, TRUE),
                               "getGroups", 0, <<>>, TRUE)
                          EXCEPT !.pc = "products",
                                 !.keycrmCats = Categories,
                                 !.groupMap = buildGroupMap(posGroups)]]
          /\ UNCHANGED faults
       \/ /\ faults < MaxFaults
          /\ faults' = faults + 1
          /\ \E failed \in {"getProductCategories", "getGroups"} :
                runs' = [runs EXCEPT ![r] = AfterPrefetchFailed(@, failed)]
    /\ UNCHANGED <<catalog, posGoods, posGroups, varsM, varsW, varsA>>

\* Step 2: keycrm.getAllProducts(); its failure reaches the outer catch.
GetAllProducts(r) ==
    /\ runs[r].pc = "products"
    /\ \/ /\ runs' = [runs EXCEPT ![r] =
                       Enumerate([Called(@, "getAllProducts", 0, <<>>, TRUE)
                                    EXCEPT !.products = catalog], 1)]
          /\ UNCHANGED faults
       \/ /\ faults < MaxFaults
          /\ faults' = faults + 1
          /\ runs' = [runs EXCEPT ![r] =
                        Fatal(Called(@, "getAllProducts", 0, <<>>, FALSE))]
    /\ UNCHANGED <<catalog, posGoods, posGroups, varsM, varsW, varsA>>

\* keycrm.getOffersByProduct(product.id) for a product with variants.
\* Mutant of GetOffers: a product whose offers cannot be fetched is left out
\* and the run goes on.
GetOffersSkipsFailed(r) ==
    /\ runs[r].pc = "offers"
    /\ LET run == runs[r]
           product == run.products[run.p]
       IN  \/ /\ runs' = [runs EXCEPT ![r] =
                           Enumerate([Called(run, "getOffersByProduct", 0, product.id, TRUE)
                                        EXCEPT !.units = @ \o OfferUnits(product)],
                                     run.p + 1)]
              /\ UNCHANGED faults
           \/ /\ faults < MaxFaults
              /\ faults' = faults + 1
              /\ runs' = [runs EXCEPT ![r] =
                            Enumerate(Called(run, "getOffersByProduct", 0, product.id,
                                             FALSE), run.p + 1)]
    /\ UNCHANGED <<catalog, posGoods, posGroups, varsM, varsW, varsA>>

GetOffers(r) ==
    /\ runs[r].pc = "offers"
    /\ LET run == runs[r]
           product == run.products[run.p]
       IN  \/ /\ runs' = [runs EXCEPT ![r] =
                           Enumerate([Called(run, "getOffersByProduct", 0, product.id, TRUE)
                                        EXCEPT !.units = @ \o OfferUnits(product)],
                                     run.p + 1)]
              /\ UNCHANGED faults
           \/ /\ faults < MaxFaults
              /\ faults' = faults + 1
              /\ runs' = [runs EXCEPT ![r] =
                            Fatal(Called(run, "getOffersByProduct", 0, product.id, FALSE))]
    /\ UNCHANGED <<catalog, posGoods, posGroups, varsM, varsW, varsA>>

\* Mutant of AfterLookupFailed: the failure reaches the outer catch.
AfterLookupFailedAborts(run, code) ==
    Fatal(PushError(run, code, "Error checking code"))

\* The catch around getGoodByCode: one error, then `continue`.
AfterLookupFailed(run, code) ==
    NextUnit(PushError(run, code, "Error checking code"), run.k + 1)

\* Mutant of Lookup: the lookup of the following unit is issued along with
\* this one, before this unit is resolved and written.
LookupAhead(r) ==
    /\ runs[r].pc = "lookup"
    /\ LET run == runs[r]
           code == deriveCode(run.units[run.k].unit)
           first == Called(run, "getGoodByCode", run.k,
                           [code |-> code, found |-> HasGood(code)], TRUE)
           both == IF run.k < Len(run.units)
                     THEN Called(first, "getGoodByCode", run.k + 1,
                                 [code |-> deriveCode(run.units[run.k + 1].unit),
                                  found |-> FALSE], TRUE)
                     ELSE first
       IN  runs' = [runs EXCEPT ![r] =
                      Resolve([both EXCEPT !.found = HasGood(code),
                                           !.existing = IF HasGood(code)
                                                          THEN GoodByCode(code)
                                                          ELSE NoGood])]
    /\ UNCHANGED <<catalog, posGoods, posGroups, faults, varsM, varsW, varsA>>

\* checkbox.getGoodByCode(code), then resolveGroupId up to its first call.
Lookup(r) ==
    /\ runs[r].pc = "lookup"
    /\ LET run == runs[r]
           code == deriveCode(run.units[run.k].unit)
       IN  \/ /\ runs' = [runs EXCEPT ![r] =
                           Resolve([Called(run, "getGoodByCode", run.k,
                                           [code |-> code, found |-> HasGood(code)], TRUE)
                                      EXCEPT !.found = HasGood(code),
                                             !.existing = IF HasGood(code)
                                                            THEN GoodByCode(code)
                                                            ELSE NoGood])]
              /\ UNCHANGED faults
           \/ /\ faults < MaxFaults
              /\ faults' = faults + 1
              /\ runs' = [runs EXCEPT ![r] =
                            AfterLookupFailed(Called(run, "getGoodByCode", run.k,
                                                     [code |-> code, found |-> FALSE],
                                                     FALSE),
                                              code)]
    /\ UNCHANGED <<catalog, posGoods, posGroups, varsM, varsW, varsA>>

\* Mutant of AfterGroupFailed: the failure is reported and the unit passed over.
AfterGroupFailedReports(run) ==
    NextUnit(PushError(run, deriveCode(run.units[run.k].unit),
                       "Could not resolve group"), run.k + 1)

\* The catch around resolveGroupId: a warning, groupId stays null.
AfterGroupFailed(run) == Decide([run EXCEPT !.groupId = 0])

\* checkbox.createGroup(parentCat.name, null); a failure leaves groupId null.
CreateParentGroup(r) ==
    /\ runs[r].pc = "parentGroup"
    /\ LET run == runs[r]
           key == ParentKey(run)
           parentCat == run.keycrmCats[CategoryOf(run).parent_id]
           group == StoredGroup(parentCat.name, 0)
       IN  \/ /\ posGroups' = Append(posGroups, group)
              /\ runs' = [runs EXCEPT ![r] =
                           ResolveOwn([Called(run, "createGroup", run.k, key, TRUE)
                                         EXCEPT !.groupMap = MapSet(@, key, group),
                                                !.parentGroupId = group.id])]
              /\ UNCHANGED faults
           \/ /\ faults < MaxFaults
              /\ faults' = faults + 1
              /\ runs' = [runs EXCEPT ![r] =
                            AfterGroupFailed(Called(run, "createGroup", run.k, key,
                                                    FALSE))]
              /\ UNCHANGED posGroups
    /\ UNCHANGED <<catalog, posGoods, varsM, varsW, varsA>>

\* checkbox.createGroup(cat.name, parentGroupId || null)
CreateOwnGroup(r) ==
    /\ runs[r].pc = "ownGroup"
    /\ LET run == runs[r]
           key == OwnKey(run)
           group == StoredGroup(CategoryOf(run).name, run.parentGroupId)
       IN  \/ /\ posGroups' = Append(posGroups, group)
              /\ runs' = [runs EXCEPT ![r] =
                           Decide([Called(run, "createGroup", run.k, key, TRUE)
                                     EXCEPT !.groupMap = MapSet(@, key, group),
                                            !.groupId = group.id])]
              /\ UNCHANGED faults
           \/ /\ faults < MaxFaults
              /\ faults' = faults + 1
              /\ runs' = [runs EXCEPT ![r] =
                            AfterGroupFailed(Called(run, "createGroup", run.k, key,
                                                    FALSE))]
              /\ UNCHANGED posGroups
    /\ UNCHANGED <<catalog, posGoods, varsM, varsW, varsA>>

\* Mutant of AfterCreateGood: created is counted whatever the call returned.
AfterCreateGoodCountsAlways(run, status, code) ==
    NextUnit([run EXCEPT !.summary.created = @ + 1], run.k + 1)

\* Mutant of AfterCreateGood: a conflict is reported like any other failure.
AfterCreateGoodConflictIsError(run, status, code) ==
    IF status = 200
      THEN NextUnit([run EXCEPT !.summary.created = @ + 1], run.k + 1)
    ELSE NextUnit(PushError(run, code, "Failed to create"), run.k + 1)

\* The create branch after checkbox.createGood returned or threw.
AfterCreateGood(run, status, code) ==
    IF status = 200
      THEN NextUnit([run EXCEPT !.summary.created = @ + 1], run.k + 1)
    ELSE IF status = 422
      THEN NextUnit([run EXCEPT !.summary.skipped = @ + 1], run.k + 1)
    ELSE NextUnit(PushError(run, code, "Failed to create"), run.k + 1)

CreateGood(r) ==
    /\ runs[r].pc = "create"
    /\ LET run == runs[r]
           e == run.units[run.k]
           payload == toCheckboxGood(e.unit, e.productId, e.isOffer)
       IN  \/ /\ ~HasGood(payload.code)
              /\ posGoods' = Append(posGoods, StoredGood(payload))
              /\ runs' = [runs EXCEPT ![r] =
                           AfterCreateGood(Answered(run, "createGood", run.k, payload, 200),
                                           200, payload.code)]
              /\ UNCHANGED faults
           \/ /\ HasGood(payload.code)
              /\ runs' = [runs EXCEPT ![r] =
                           AfterCreateGood(Answered(run, "createGood", run.k, payload, 422),
                                           422, payload.code)]
              /\ UNCHANGED <<posGoods, faults>>
           \/ /\ faults < MaxFaults
              /\ faults' = faults + 1
              /\ \E status \in CreateGoodFailures :
                    runs' = [runs EXCEPT ![r] =
                               AfterCreateGood(Answered(run, "createGood", run.k, payload,
                                                        status),
                                               status, payload.code)]
              /\ UNCHANGED posGoods
    /\ UNCHANGED <<catalog, posGroups, varsM, varsW, varsA>>

UpdateGood(r) ==
    /\ runs[r].pc = "update"
    /\ LET run == runs[r]
           e == run.units[run.k]
           payload == toCheckboxGood(e.unit, e.productId, e.isOffer)
           arg == [id |-> run.existing.id, payload |-> payload]
       IN  \/ /\ posGoods' = PutGood(run.existing.id, payload)
              /\ runs' = [runs EXCEPT ![r] =
                           NextUnit([Called(run, "updateGood", run.k, arg, TRUE)
                                       EXCEPT !.summary.updated = @ + 1], run.k + 1)]
              /\ UNCHANGED faults
           \/ /\ faults < MaxFaults
              /\ faults' = faults + 1
              /\ runs' = [runs EXCEPT ![r] =
                            NextUnit(PushError(Called(run, "updateGood", run.k, arg, FALSE),
                                               payload.code, "Failed to update"),
                                     run.k + 1)]
              /\ UNCHANGED posGoods
    /\ UNCHANGED <<catalog, posGroups, varsM, varsW, varsA>>

----------------------------------------------------------------------------
(* SpecSync: reconciliation runs, one after another, over a CRM catalog    *)
(* and a POS catalog drawn from a few fixtures.                            *)

CrmProduct(id, name, sku, price, category_id) ==
    [ id |-> id, name |-> name, sku |-> sku, barcode |-> <<>>, price |-> price,
      has_offers |-> FALSE, category_id |-> category_id, offers |-> <<>> ]

CrmOffer(id, name, sku, price, properties) ==
    [ id |-> id, name |-> name, sku |-> sku, barcode |-> <<>>, price |-> price,
      properties |-> properties ]

PWidget == CrmProduct(1, Widget, SkuA1, 19990, 0)

PTea == CrmProduct(2, Tea, <<"T","1">>, 50000, 1)

PMug ==
    [ CrmProduct(3, BlueMug, <<>>, 0, 2) EXCEPT
        !.has_offers = TRUE,
        !.offers = << CrmOffer(4, <<>>, <<"M","1">>, 125000, <<>>),
                      CrmOffer(5, <<"x">>, <<>>, 1005, << <<"L">> >>) >> ]

PGreen == CrmProduct(6, Green, <<"G","1">>, 30000, 2)

PSencha == CrmProduct(10, Sencha, <<"S","1">>, 40000, 3)

PTeaLoud == CrmProduct(11, <<"T","e","a"," ","X">>, <<"T","2">>, 60000, 4)

PGreenSencha == CrmProduct(12, <<"G","r","e","e","n"," ","S">>, <<"G","2">>, 35000, 5)

PNameless == CrmProduct(7, <<>>, <<"N","1">>, 10000, 0)

PSymbols == CrmProduct(8, <<"#">>, <<>>, 10000, 0)

PTwin == CrmProduct(9, <<"W","i","d","g","e","t"," ","X","L">>, SkuA1, 29990, 0)

Catalogs ==
    { <<PWidget>>, <<PTea, PWidget>>, <<PMug>>, <<PMug, PGreen>>,
      <<PNameless, PWidget>>, <<PSymbols, PTea>>, <<PWidget, PTwin>>,
      <<PGreen, PSencha>>, <<PTea, PTeaLoud, PGreen, PGreenSencha>>,
      <<PNameless, PSymbols, PWidget>> }

\* A good the POS already holds with an outdated price.
StaleWidget == [id |-> 1, code |-> SkuA1, name |-> Widget, price |-> 1500, group_id |-> 0]

InitialGoods == { <<>>, <<StaleWidget>> }

InitialGroups == { <<>>, <<[id |-> 1, name |-> <<"T","E","A">>, parent_id |-> 0]>> }

InitS ==
    /\ catalog \in Catalogs
    /\ posGoods \in InitialGoods
    /\ posGroups \in InitialGroups
    /\ runs = [r \in 1..MaxRuns |-> NewRun]
    /\ faults = 0
    /\ MapperIdle
    /\ WebhookIdle
    /\ AuthIdle

NextS ==
    \/ \E r \in DOMAIN runs : StartRun(r)
    \/ \E r \in DOMAIN runs : Prefetch(r)
    \/ \E r \in DOMAIN runs : GetAllProducts(r)
    \/ \E r \in DOMAIN runs : GetOffers(r)
    \/ \E r \in DOMAIN runs : Lookup(r)
    \/ \E r \in DOMAIN runs : CreateParentGroup(r)
    \/ \E r \in DOMAIN runs : CreateOwnGroup(r)
    \/ \E r \in DOMAIN runs : CreateGood(r)
    \/ \E r \in DOMAIN runs : UpdateGood(r)

SpecSync == InitS /\ [][NextS]_vars

----------------------------------------------------------------------------
(* SpecRace: two reconciliation runs requested at any moment, their        *)
(* awaited calls completing in any order.                                  *)

RaceCatalogs == { <<PTea, PWidget>>, <<PGreen>>, <<PMug>> }

InitX ==
    /\ catalog \in RaceCatalogs
    /\ posGoods \in InitialGoods
    /\ posGroups = <<>>
    /\ runs = [r \in {1, 2} |-> NewRun]
    /\ faults = 0
    /\ MapperIdle
    /\ WebhookIdle
    /\ AuthIdle

NextX ==
    \/ \E r \in DOMAIN runs : StartRunConcurrently(r)
    \/ \E r \in DOMAIN runs : Prefetch(r)
    \/ \E r \in DOMAIN runs : GetAllProducts(r)
    \/ \E r \in DOMAIN runs : GetOffers(r)
    \/ \E r \in DOMAIN runs : Lookup(r)
    \/ \E r \in DOMAIN runs : CreateParentGroup(r)
    \/ \E r \in DOMAIN runs : CreateOwnGroup(r)
    \/ \E r \in DOMAIN runs : CreateGood(r)
    \/ \E r \in DOMAIN runs : UpdateGood(r)

SpecRace == InitX /\ [][NextX]_vars

----------------------------------------------------------------------------
(* The getOrCreateGroup revision of the reconciler: routes/sync.js with    *)
(* resolveGroupId(category) and the module-level groupCache of             *)
(* services/checkbox.js.  Its mapper is not among the sources: the payload *)
(* is that of toCheckboxGood and the good is stored under the resolved     *)
(* group.                                                                  *)

\* `${name}::${parentId || ''}`
CacheKey(name, parentId) == [name |-> name, parent |-> parentId]

\* The for loop of getOrCreateGroup over the listed groups.
RECURSIVE fillCacheFrom(_, _, _)
fillCacheFrom(groupList, i, map) ==
    IF i > Len(groupList) THEN map
    ELSE fillCacheFrom(groupList, i + 1,
            MapSet(map, CacheKey(groupList[i].name, groupList[i].parent_id),
                   groupList[i].id))

fillCache(groupList) == [loaded |-> TRUE, map |-> fillCacheFrom(groupList, 1, <<>>)]

\* res.json({ ...summary, elapsed_sec })
FinishCached(run) ==
    [run EXCEPT !.pc = "done", !.status = 200,
                !.bodyFields = {"elapsed_sec"} \cup SummaryFields]

\* res.status(500).json({ error: err.message, ...summary })
FatalCached(run) ==
    [run EXCEPT !.pc = "done", !.status = 500,
                !.bodyFields = {"error"} \cup SummaryFields]

\* Step 2 from unit k on, up to the next remote call.
RECURSIVE NextUnitCached(_, _)
NextUnitCached(run, k) ==
    IF k > Len(run.units) THEN FinishCached([run EXCEPT !.k = k])
    ELSE LET u == run.units[k].unit IN
         IF u.name = <<>>
           THEN NextUnitCached(PushError(run, u.id, "Missing name, skipped"), k + 1)
         ELSE IF Trim(deriveCode(u)) = <<>>
           THEN NextUnitCached([PushError(run, u.id, "Empty code")
                                  EXCEPT !.summary.skipped = @ + 1], k + 1)
         ELSE [run EXCEPT !.pc = "lookup", !.k = k, !.found = FALSE,
                          !.existing = NoGood, !.parentGroupId = 0, !.groupId = 0]

\* Step 1 from product p on, up to the next getOffersByProduct call.
RECURSIVE EnumerateCached(_, _)
EnumerateCached(run, p) ==
    IF p > Len(run.products) THEN NextUnitCached([run EXCEPT !.p = p], 1)
    ELSE IF run.products[p].has_offers THEN [run EXCEPT !.pc = "offers", !.p = p]
    ELSE EnumerateCached([run EXCEPT !.units = Append(@, ProductUnit(run.products[p]))],
                         p + 1)

\* product.category || null, as KeyCRM embeds it, and category.parent.
categoryOf(run) ==
    LET categoryId == run.units[run.k].categoryId IN
    IF categoryId \in DOMAIN Categories THEN Categories[categoryId] ELSE NoGroup

parentOf(category) ==
    IF category.parent_id \in DOMAIN Categories THEN Categories[category.parent_id]
    ELSE NoGroup

\* The create / update / skip decision of the revision.
DecideCached(run) ==
    LET u == run.units[run.k].unit
        noted == [run EXCEPT !.decided =
                     Append(@, [k |-> run.k, groupId |-> run.groupId,
                                found |-> run.found, existing |-> run.existing])]
    IN  IF ~run.found THEN [noted EXCEPT !.pc = "create"]
        ELSE IF \/ needsUpdate(run.existing, u)
                \/ (run.groupId # 0 /\ run.existing.group_id # run.groupId)
          THEN [noted EXCEPT !.pc = "update"]
        ELSE NextUnitCached([noted EXCEPT !.summary.skipped = @ + 1], run.k + 1)

\* getOrCreateGroup(category.name, parentId) from its cache lookup on.
OwnFromCache(run, cache) ==
    LET key == CacheKey(categoryOf(run).name, run.parentGroupId) IN
    IF MapHas(cache.map, key)
      THEN DecideCached([run EXCEPT !.groupId = MapGet(cache.map, key)])
      ELSE [run EXCEPT !.pc = "ownCreate"]

\* getOrCreateGroup(category.parent.name) from its cache lookup on.
ParentFromCache(run, cache) ==
    LET key == CacheKey(parentOf(categoryOf(run)).name, 0) IN
    IF MapHas(cache.map, key)
      THEN OwnFromCache([run EXCEPT !.parentGroupId = MapGet(cache.map, key)], cache)
      ELSE [run EXCEPT !.pc = "parentCreate"]

\* resolveGroupId(category) from its start, up to the next remote call.
resolveGroupId(run, cache) ==
    LET category == categoryOf(run) IN
    IF category.name = <<>> THEN DecideCached(run)
    ELSE IF parentOf(category).name # <<>>
      THEN IF cache.loaded THEN ParentFromCache(run, cache)
                           ELSE [run EXCEPT !.pc = "parentList"]
    ELSE IF cache.loaded THEN OwnFromCache(run, cache)
                         ELSE [run EXCEPT !.pc = "ownList"]

\* The catch of resolveGroupId: a warning, the group id is null.
GroupUnresolved(run) == DecideCached([run EXCEPT !.groupId = 0])

\* Mutant of StartCachedRun: clearGroupCache is not called.
StartCachedRunKeepsCache(r) ==
    /\ runs[r].pc = "idle"
    /\ IF r = 1 THEN TRUE ELSE runs[r - 1].pc = "done"
    /\ \E secretOk \in BOOLEAN :
          runs' = [runs EXCEPT ![r] =
                     IF secretOk THEN [@ EXCEPT !.pc = "products", !.authorized = TRUE]
                                 ELSE Unauthorized(@)]
    /\ UNCHANGED <<catalog, posGoods, posGroups, faults, varsM, varsW, varsA>>

\* The auth guard, then checkbox.clearGroupCache(); runs are started one
\* after another.
StartCachedRun(r) ==
    /\ runs[r].pc = "idle"
    /\ IF r = 1 THEN TRUE ELSE runs[r - 1].pc = "done"
    /\ \E secretOk \in BOOLEAN :
          /\ runs' = [runs EXCEPT ![r] =
                        IF secretOk THEN [@ EXCEPT !.pc = "products", !.authorized = TRUE]
                                    ELSE Unauthorized(@)]
          /\ groupCache' = IF secretOk THEN NoCache ELSE groupCache
    /\ UNCHANGED <<catalog, posGoods, posGroups, faults, varsM, varsW, jwtToken, posCalls>>

CachedProducts(r) ==
    /\ runs[r].pc = "products"
    /\ \/ /\ runs' = [runs EXCEPT ![r] =
                       EnumerateCached([Called(@, "getAllProducts", 0, <<>>, TRUE)
                                          EXCEPT !.products = catalog], 1)]
          /\ UNCHANGED faults
       \/ /\ faults < MaxFaults
          /\ faults' = faults + 1
          /\ runs' = [runs EXCEPT ![r] =
                        FatalCached(Called(@, "getAllProducts", 0, <<>>, FALSE))]
    /\ UNCHANGED <<catalog, posGoods, posGroups, varsM, varsW, varsA>>

CachedOffers(r) ==
    /\ runs[r].pc = "offers"
    /\ LET run == runs[r]
           product == run.products[run.p]
       IN  \/ /\ runs' = [runs EXCEPT ![r] =
                           EnumerateCached(
                               [Called(run, "getOffersByProduct", 0, product.id, TRUE)
                                  EXCEPT !.units = @ \o OfferUnits(product)],
                               run.p + 1)]
              /\ UNCHANGED faults
           \/ /\ faults < MaxFaults
              /\ faults' = faults + 1
              /\ runs' = [runs EXCEPT ![r] =
                            FatalCached(Called(run, "getOffersByProduct", 0, product.id,
                                               FALSE))]
    /\ UNCHANGED <<catalog, posGoods, posGroups, varsM, varsW, varsA>>

\* checkbox.getGoodByCode(code), then resolveGroupId up to its first call.
CachedLookup(r) ==
    /\ runs[r].pc = "lookup"
    /\ LET run == runs[r]
           code == deriveCode(run.units[run.k].unit)
       IN  \/ /\ runs' = [runs EXCEPT ![r] =
                           resolveGroupId(
                               [Called(run, "getGoodByCode", run.k,
                                       [code |-> code, found |-> HasGood(code)], TRUE)
                                  EXCEPT !.found = HasGood(code),
                                         !.existing = IF HasGood(code)
                                                        THEN GoodByCode(code)
                                                        ELSE NoGood],
                               groupCache)]
              /\ UNCHANGED faults
           \/ /\ faults < MaxFaults
              /\ faults' = faults + 1
              /\ runs' = [runs EXCEPT ![r] =
                            NextUnitCached(
                                PushError(Called(run, "getGoodByCode", run.k,
                                                 [code |-> code, found |-> FALSE], FALSE),
                                          code, "Error checking code"),
                                run.k + 1)]
    /\ UNCHANGED <<catalog, posGoods, posGroups, varsM, varsW, varsA>>

\* getOrCreateGroup with groupCache null: getAllGroups(), then the cache is
\* replaced by one built from the listing.
ListGroups(r) ==
    /\ runs[r].pc \in {"parentList", "ownList"}
    /\ LET run == runs[r]
       IN  \/ /\ groupCache' = fillCache(posGroups)
              /\ runs' = [runs EXCEPT ![r] =
                           IF run.pc = "parentList"
                             THEN ParentFromCache(
                                      Called(run, "getAllGroups", run.k, <<>>, TRUE),
                                      fillCache(posGroups))
                             ELSE OwnFromCache(
                                      Called(run, "getAllGroups", run.k, <<>>, TRUE),
                                      fillCache(posGroups))]
              /\ UNCHANGED faults
           \/ /\ faults < MaxFaults
              /\ faults' = faults + 1
              /\ runs' = [runs EXCEPT ![r] =
                            GroupUnresolved(Called(run, "getAllGroups", run.k, <<>>,
                                                   FALSE))]
              /\ UNCHANGED groupCache
    /\ UNCHANGED <<catalog, posGoods, posGroups, varsM, varsW, jwtToken, posCalls>>

\* getOrCreateGroup after a miss: createGroup(name, parentId), then
\* groupCache[key] = newGroup.id, which throws when the cache was cleared
\* in between.
CreateCachedGroup(r) ==
    /\ runs[r].pc \in {"parentCreate", "ownCreate"}
    /\ LET run == runs[r]
           name == IF run.pc = "parentCreate" THEN parentOf(categoryOf(run)).name
                                              ELSE categoryOf(run).name
           parentId == IF run.pc = "parentCreate" THEN 0 ELSE run.parentGroupId
           key == CacheKey(name, parentId)
           group == StoredGroup(name, parentId)
           cache == [groupCache EXCEPT !.map = MapSet(@, key, group.id)]
           called == Called(run, "createGroup", run.k, key, TRUE)
       IN  \/ /\ posGroups' = Append(posGroups, group)
              /\ IF groupCache.loaded
                   THEN /\ groupCache' = cache
                        /\ runs' = [runs EXCEPT ![r] =
                                     IF run.pc = "parentCreate"
                                       THEN OwnFromCache(
                                                [called EXCEPT !.parentGroupId = group.id],
                                                cache)
                                       ELSE DecideCached(
                                                [called EXCEPT !.groupId = group.id])]
                   ELSE /\ runs' = [runs EXCEPT ![r] = GroupUnresolved(called)]
                        /\ UNCHANGED groupCache
              /\ UNCHANGED faults
           \/ /\ faults < MaxFaults
              /\ faults' = faults + 1
              /\ runs' = [runs EXCEPT ![r] =
                            GroupUnresolved(Called(run, "createGroup", run.k, key, FALSE))]
              /\ UNCHANGED <<posGroups, groupCache>>
    /\ UNCHANGED <<catalog, posGoods, varsM, varsW, jwtToken, posCalls>>

\* The create branch: every failure of createGood is an error.
CreateCachedGood(r) ==
    /\ runs[r].pc = "create"
    /\ LET run == runs[r]
           e == run.units[run.k]
           payload == toCheckboxGood(e.unit, e.productId, e.isOffer)
       IN  \/ /\ ~HasGood(payload.code)
              /\ posGoods' = Append(posGoods, [StoredGood(payload) EXCEPT
                                                 !.group_id = run.groupId])
              /\ runs' = [runs EXCEPT ![r] =
                           NextUnitCached(
                               [Answered(run, "createGood", run.k, payload, 200)
                                  EXCEPT !.summary.created = @ + 1], run.k + 1)]
              /\ UNCHANGED faults
           \/ /\ HasGood(payload.code)
              /\ runs' = [runs EXCEPT ![r] =
                           NextUnitCached(
                               PushError(Answered(run, "createGood", run.k, payload, 422),
                                         payload.code, "Failed to create"), run.k + 1)]
              /\ UNCHANGED <<posGoods, faults>>
           \/ /\ faults < MaxFaults
              /\ faults' = faults + 1
              /\ \E status \in CreateGoodFailures :
                    runs' = [runs EXCEPT ![r] =
                               NextUnitCached(
                                   PushError(Answered(run, "createGood", run.k, payload,
                                                      status),
                                             payload.code, "Failed to create"),
                                   run.k + 1)]
              /\ UNCHANGED posGoods
    /\ UNCHANGED <<catalog, posGroups, varsM, varsW, varsA>>

\* The update branch.
UpdateCachedGood(r) ==
    /\ runs[r].pc = "update"
    /\ LET run == runs[r]
           e == run.units[run.k]
           payload == toCheckboxGood(e.unit, e.productId, e.isOffer)
           arg == [id |-> run.existing.id, payload |-> payload]
       IN  \/ /\ posGoods' =
                    [i \in DOMAIN posGoods |->
                        IF posGoods[i].id = run.existing.id
                          THEN [PutGood(run.existing.id, payload)[i] EXCEPT
                                  !.group_id = run.groupId]
                          ELSE posGoods[i]]
              /\ runs' = [runs EXCEPT ![r] =
                           NextUnitCached([Called(run, "updateGood", run.k, arg, TRUE)
                                             EXCEPT !.summary.updated = @ + 1],
                                          run.k + 1)]
              /\ UNCHANGED faults
           \/ /\ faults < MaxFaults
              /\ faults' = faults + 1
              /\ runs' = [runs EXCEPT ![r] =
                            NextUnitCached(
                                PushError(Called(run, "updateGood", run.k, arg, FALSE),
                                          payload.code, "Failed to update"),
                                run.k + 1)]
              /\ UNCHANGED posGoods
    /\ UNCHANGED <<catalog, posGroups, varsM, varsW, varsA>>

----------------------------------------------------------------------------
(* SpecCache: runs of the getOrCreateGroup revision, one after another.    *)

CacheCatalogs == { <<PTea, PWidget>>, <<PMug>>, <<PMug, PGreen>>, <<PGreen, PTea>> }

InitC ==
    /\ catalog \in CacheCatalogs
    /\ posGoods \in InitialGoods
    /\ posGroups \in InitialGroups
    /\ runs = [r \in 1..MaxRuns |-> NewRun]
    /\ jwtToken = 0
    /\ posCalls = <<>>
    /\ groupCache = NoCache
    /\ faults = 0
    /\ MapperIdle
    /\ WebhookIdle

NextC ==
    \/ \E r \in DOMAIN runs : StartCachedRun(r)
    \/ \E r \in DOMAIN runs : CachedProducts(r)
    \/ \E r \in DOMAIN runs : CachedOffers(r)
    \/ \E r \in DOMAIN runs : CachedLookup(r)
    \/ \E r \in DOMAIN runs : ListGroups(r)
    \/ \E r \in DOMAIN runs : CreateCachedGroup(r)
    \/ \E r \in DOMAIN runs : CreateCachedGood(r)
    \/ \E r \in DOMAIN runs : UpdateCachedGood(r)

SpecCache == InitC /\ [][NextC]_vars

----------------------------------------------------------------------------
(* SpecService: one reconciliation run and one webhook delivery handled by *)
(* the same process, their awaited calls completing in any order.          *)

ServiceCatalogs == { <<PTea, PWidget>>, <<PMug>> }

ServiceReceipts ==
    { SaleReceipt("r1", "SELL", "null", <<LineA1>>, "c1", 3998),
      SaleReceipt("r2", "SELL", "null", <<LineBarcode, LineName>>, "c1", 500),
      SaleReceipt("r3", "SELL", "7", <<LineA1>>, "c1", 3998) }

ServiceBodies ==
    {[callback |-> "receipt_notification", at |-> "receipt", rc |-> rc] :
        rc \in ServiceReceipts}

InitV ==
    /\ webhookSecret = ""
    /\ cashierId = "c1"
    /\ reqs = [r \in 1..1 |-> NewReq]
    /\ orders = <<>>
    /\ catalog \in ServiceCatalogs
    /\ posGoods \in InitialGoods
    /\ posGroups \in InitialGroups
    /\ runs = [r \in 1..1 |-> NewRun]
    /\ faults = 0
    /\ MapperIdle
    /\ AuthIdle

NextV ==
    \/ \E r \in DOMAIN runs : StartRun(r)
    \/ \E r \in DOMAIN runs : Prefetch(r)
    \/ \E r \in DOMAIN runs : GetAllProducts(r)
    \/ \E r \in DOMAIN runs : GetOffers(r)
    \/ \E r \in DOMAIN runs : Lookup(r)
    \/ \E r \in DOMAIN runs : CreateParentGroup(r)
    \/ \E r \in DOMAIN runs : CreateOwnGroup(r)
    \/ \E r \in DOMAIN runs : CreateGood(r)
    \/ \E r \in DOMAIN runs : UpdateGood(r)
    \/ \E r \in DOMAIN reqs : Deliver(r, ServiceBodies, {NoSig})
    \/ AsyncTail

SpecService == InitV /\ [][NextV]_vars

----------------------------------------------------------------------------
(* services/checkbox.js: login and withRetry.                              *)

\* The Checkbox calls the reconciler makes, each wrapped by withRetry.
PosOps == {"getGroups", "getGoodByCode", "createGroup", "createGood", "updateGood"}

\* HTTP statuses of one attempt.
AttemptStatuses == {200, 401, 404, 500}

\* Mutant of Throws: 404 is an error like any other.
ThrowsOnNotFound(op, status) == status # 200

\* Whether fn() throws for a status: getGoodByCode turns 404 into null
\* inside fn.
Throws(op, status) == status # 200 /\ ~(op = "getGoodByCode" /\ status = 404)

IsAuthExpired(status) == status = 401

NewCall ==
    [ n        |-> 0,          \* how many calls have entered withRetry
      pc       |-> "idle",     \* first, signin, me, second, returned, thrown
      op       |-> "",
      attempts |-> <<>>,       \* statuses of the attempts of fn, in order
      logins   |-> 0,          \* calls of login()
      loginOk  |-> FALSE,      \* the sign-in request succeeded
      error    |-> 0 ]         \* status of the error withRetry threw

\* Mutant of AfterFirst: any failure of the first attempt leads to a re-login.
AfterFirstRetriesAll(wrapped, status) ==
    LET c == [wrapped EXCEPT !.attempts = Append(@, status)] IN
    IF ~Throws(c.op, status) THEN [c EXCEPT !.pc = "returned"]
    ELSE [c EXCEPT !.pc = "signin"]

\* withRetry after the first fn() settled.
AfterFirst(wrapped, status) ==
    LET c == [wrapped EXCEPT !.attempts = Append(@, status)] IN
    IF ~Throws(c.op, status) THEN [c EXCEPT !.pc = "returned"]
    ELSE IF IsAuthExpired(status) THEN [c EXCEPT !.pc = "signin"]
    ELSE [c EXCEPT !.pc = "thrown", !.error = status]

\* withRetry after the second fn() settled: `return await fn()` in the catch.
AfterSecond(wrapped, status) ==
    LET c == [wrapped EXCEPT !.attempts = Append(@, status)] IN
    IF ~Throws(c.op, status) THEN [c EXCEPT !.pc = "returned"]
    ELSE [c EXCEPT !.pc = "thrown", !.error = status]

\* A call enters withRetry once the caller's previous one has settled.
BeginCall(c) ==
    /\ posCalls[c].pc \in {"idle", "returned", "thrown"}
    /\ posCalls[c].n < MaxCalls
    /\ \E op \in PosOps :
          posCalls' = [posCalls EXCEPT ![c] =
                         [NewCall EXCEPT !.n = posCalls[c].n + 1,
                                         !.pc = "first", !.op = op]]
    /\ UNCHANGED <<jwtToken, groupCache, faults, varsM, varsW, varsS>>

FirstAttempt(c) ==
    /\ posCalls[c].pc = "first"
    /\ \E status \in AttemptStatuses :
          posCalls' = [posCalls EXCEPT ![c] = AfterFirst(@, status)]
    /\ UNCHANGED <<jwtToken, groupCache, faults, varsM, varsW, varsS>>

\* login(): POST /cashier/signin; its failure leaves withRetry as the error.
Signin(c) ==
    /\ posCalls[c].pc = "signin"
    /\ \/ /\ jwtToken' = jwtToken + 1
          /\ posCalls' = [posCalls EXCEPT ![c] =
                            [@ EXCEPT !.pc = "me", !.logins = @ + 1, !.loginOk = TRUE]]
       \/ /\ posCalls' = [posCalls EXCEPT ![c] =
                            [@ EXCEPT !.pc = "thrown", !.logins = @ + 1, !.error = 500]]
          /\ UNCHANGED jwtToken
    /\ UNCHANGED <<groupCache, faults, varsM, varsW, varsS>>

\* login(): GET /cashier/me; cashierId = me.data.id || null, null on failure.
FetchMe(c) ==
    /\ posCalls[c].pc = "me"
    /\ \E id \in {"c1", "null"} : cashierId' = id
    /\ posCalls' = [posCalls EXCEPT ![c] = [@ EXCEPT !.pc = "second"]]
    /\ UNCHANGED <<jwtToken, groupCache, webhookSecret, reqs, orders, faults, varsM, varsS>>

SecondAttempt(c) ==
    /\ posCalls[c].pc = "second"
    /\ \E status \in AttemptStatuses :
          posCalls' = [posCalls EXCEPT ![c] = AfterSecond(@, status)]
    /\ UNCHANGED <<jwtToken, groupCache, faults, varsM, varsW, varsS>>

----------------------------------------------------------------------------
(* SpecAuth: Checkbox calls under withRetry, one after another, while      *)
(* webhook calls arrive.                                                   *)

AuthReceipts ==
    {SaleReceipt("r1", "SELL", "null", g, c, 3998) :
        g \in {<<LineA1>>, <<LineBarcode>>}, c \in {"null", "c1", "c2"}}

AuthBodies ==
    {[callback |-> "receipt_notification", at |-> "receipt", rc |-> rc] :
        rc \in AuthReceipts}

InitA ==
    /\ webhookSecret = ""
    /\ cashierId \in {"null", "c1"}
    /\ reqs = [r \in 1..1 |-> NewReq]
    /\ orders = <<>>
    /\ jwtToken = 0
    /\ posCalls = <<NewCall>>
    /\ groupCache = NoCache
    /\ faults = 0
    /\ MapperIdle
    /\ SyncIdle

NextA ==
    \/ \E c \in DOMAIN posCalls : BeginCall(c)
    \/ \E c \in DOMAIN posCalls : FirstAttempt(c)
    \/ \E c \in DOMAIN posCalls : Signin(c)
    \/ \E c \in DOMAIN posCalls : FetchMe(c)
    \/ \E c \in DOMAIN posCalls : SecondAttempt(c)
    \/ \E r \in DOMAIN reqs : Deliver(r, AuthBodies, {NoSig})
    \/ AsyncTail

SpecAuth == InitA /\ [][NextA]_vars

----------------------------------------------------------------------------
(* SpecLookup: one run of the reconciler whose lookup by code goes through *)
(* withRetry attempt by attempt; posCalls[r] is the call of run r.         *)

\* What GET /goods/by-code/{code} answers: the good, 404 when there is none,
\* or a failure.
ByCodeStatuses(code) == {IF HasGood(code) THEN 200 ELSE 404, 401, 500}

\* The code the run is looking up.
CodeInHand(run) == deriveCode(run.units[run.k].unit)

\* checkbox.getGoodByCode(code) enters withRetry.
BeginLookup(r) ==
    /\ runs[r].pc = "lookup"
    /\ runs' = [runs EXCEPT ![r] = [@ EXCEPT !.pc = "looking"]]
    /\ posCalls' = [posCalls EXCEPT ![r] =
                      [NewCall EXCEPT !.n = posCalls[r].n + 1, !.pc = "first",
                                      !.op = "getGoodByCode"]]
    /\ UNCHANGED <<catalog, posGoods, posGroups, jwtToken, groupCache, faults,
                   varsM, varsW>>

LookupFirstAttempt(r) ==
    /\ runs[r].pc = "looking"
    /\ posCalls[r].pc = "first"
    /\ \E status \in ByCodeStatuses(CodeInHand(runs[r])) :
          posCalls' = [posCalls EXCEPT ![r] = AfterFirst(@, status)]
    /\ UNCHANGED <<jwtToken, groupCache, faults, varsM, varsW, varsS>>

LookupSecondAttempt(r) ==
    /\ runs[r].pc = "looking"
    /\ posCalls[r].pc = "second"
    /\ \E status \in ByCodeStatuses(CodeInHand(runs[r])) :
          posCalls' = [posCalls EXCEPT ![r] = AfterSecond(@, status)]
    /\ UNCHANGED <<jwtToken, groupCache, faults, varsM, varsW, varsS>>

\* The await of getGoodByCode settles: a good or null goes on to
\* resolveGroupId and the branches, an error to the catch of the lookup.
EndLookup(r) ==
    /\ runs[r].pc = "looking"
    /\ posCalls[r].pc \in {"returned", "thrown"}
    /\ LET run == runs[r]
           code == CodeInHand(run)
           wrapped == posCalls[r]
           answer == wrapped.attempts[Len(wrapped.attempts)]
           found == wrapped.pc = "returned" /\ answer = 200
           arg == [code |-> code, found |-> found, attempts |-> wrapped.attempts,
                   logins |-> wrapped.logins]
       IN  runs' = [runs EXCEPT ![r] =
                      IF wrapped.pc = "returned"
                        THEN Resolve([Called(run, "getGoodByCode", run.k, arg, TRUE)
                                        EXCEPT !.found = found,
                                               !.existing = IF found
                                                              THEN GoodByCode(code)
                                                              ELSE NoGood])
                        ELSE AfterLookupFailed(
                                 Called(run, "getGoodByCode", run.k, arg, FALSE), code)]
    /\ UNCHANGED <<catalog, posGoods, posGroups, varsM, varsW, varsA, faults>>

LookupCatalogs == { <<PWidget>>, <<PTea, PWidget>>, <<PMug>> }

InitL ==
    /\ catalog \in LookupCatalogs
    /\ posGoods \in InitialGoods
    /\ posGroups \in InitialGroups
    /\ runs = [r \in 1..1 |-> NewRun]
    /\ jwtToken = 0
    /\ posCalls = [r \in 1..1 |-> NewCall]
    /\ groupCache = NoCache
    /\ faults = 0
    /\ MapperIdle
    /\ WebhookIdle

NextL ==
    \/ \E r \in DOMAIN runs : StartRun(r)
    \/ \E r \in DOMAIN runs : Prefetch(r)
    \/ \E r \in DOMAIN runs : GetAllProducts(r)
    \/ \E r \in DOMAIN runs : GetOffers(r)
    \/ \E r \in DOMAIN runs : BeginLookup(r)
    \/ \E r \in DOMAIN runs : LookupFirstAttempt(r)
    \/ \E c \in DOMAIN posCalls : Signin(c)
    \/ \E c \in DOMAIN posCalls : FetchMe(c)
    \/ \E r \in DOMAIN runs : LookupSecondAttempt(r)
    \/ \E r \in DOMAIN runs : EndLookup(r)
    \/ \E r \in DOMAIN runs : CreateParentGroup(r)
    \/ \E r \in DOMAIN runs : CreateOwnGroup(r)
    \/ \E r \in DOMAIN runs : CreateGood(r)
    \/ \E r \in DOMAIN runs : UpdateGood(r)

SpecLookup == InitL /\ [][NextL]_vars

----------------------------------------------------------------------------
(* Claims about the sale ingestion pipeline.                               *)

Terminal(q) ==
    q.pc \in {"REJECTED", "IGNORED", "SKIPPED", "DUPLICATE", "SUBMITTED", "FAILED"}

\* The orders KeyCRM holds that were created from receipt id.
OrdersFor(id) == {k \in DOMAIN orders : orders[k].receipt = id}

GotDuplicateAnswer(q) ==
    q.createResp.status = 422 /\ q.createResp.message = "source_uuid"

\* C1 as stated: once every delivery has ended, each receipt that passed the
\* filter has exactly one order in the CRM.
C1_ExactlyOneOrder ==
    (\A r \in DOMAIN reqs : Terminal(reqs[r])) =>
        \A r \in DOMAIN reqs :
            reqs[r].verdict = "accepted" =>
                Cardinality(OrdersFor(ReceiptOf(reqs[r].body).id)) = 1

\* C1 amended: however the deliveries of one receipt interleave, the CRM
\* never holds more than one order for it, every order carries the receipt
\* identifier as source_uuid, it holds exactly one once a createOrder call
\* for it has succeeded, and a delivery that got the duplicate-key answer
\* ends as success with createOrder as its last CRM call.
C1_AtMostOneOrder ==
    /\ \A k \in DOMAIN orders : orders[k].payload.source_uuid = orders[k].receipt
    /\ \A r \in DOMAIN reqs :
        LET q == reqs[r]
            n == Cardinality(OrdersFor(ReceiptOf(q.body).id))
        IN  /\ q.pc # "new" => n <= 1
            /\ q.createResp.status = 200 => n = 1
            /\ GotDuplicateAnswer(q) =>
                  /\ q.pc = "DUPLICATE"
                  /\ n = 1
                  /\ q.calls[Len(q.calls)] = "createOrder"
                  /\ q.responses = <<200>>

\* Two deliveries of one receipt have ended, one submitted the order and the
\* other got the duplicate-key answer.
C1_Witness ==
    \E r1, r2 \in DOMAIN reqs :
        /\ reqs[r1].pc = "SUBMITTED"
        /\ reqs[r2].pc = "DUPLICATE"
        /\ reqs[r1].body = reqs[r2].body
        /\ Cardinality(OrdersFor(ReceiptOf(reqs[r1].body).id)) = 1

\* C3: a receipt that reaches the filter is ignored, with no CRM call, when
\* its order_id is set, when it has lines and none has a good reference,
\* when its known cashier differs from the known signed-in cashier, or when
\* its type is RETURN; a SELL receipt with order_id null, a catalog-linked
\* line and no cashier mismatch is accepted.
C3_SaleFilter ==
    \A r \in DOMAIN reqs :
        LET q == reqs[r]
            rc == ReceiptOf(q.body)
            echo == Len(rc.goods) > 0
                    /\ \A i \in DOMAIN rc.goods : rc.goods[i].good_id = "null"
            mismatch == /\ cashierId # "null" /\ rc.cashier # "null"
                        /\ rc.cashier # cashierId
        IN  q.verdict \in {"ignored", "accepted"} /\ HasReceipt(q.body) =>
              /\ (rc.order_id # "null" \/ echo \/ mismatch \/ rc.type = "RETURN")
                    => q.pc = "IGNORED" /\ q.verdict = "ignored" /\ q.calls = <<>>
              /\ ( /\ rc.type \in {"SELL", "sell"}
                   /\ rc.order_id = "null"
                   /\ \E i \in DOMAIN rc.goods : rc.goods[i].good_id # "null"
                   /\ ~mismatch )
                    => q.verdict = "accepted"

\* An otherwise genuine sale was ignored because it carries an order_id.
C3_Witness ==
    \E r \in DOMAIN reqs :
        /\ reqs[r].pc = "IGNORED"
        /\ ReceiptOf(reqs[r].body) =
              SaleReceipt("r1", "SELL", "o9", <<LineA1>>, "c1", 3998)
        /\ cashierId = "c1"

C5_SignatureRequired ==
    \A r \in DOMAIN reqs :
        webhookSecret # "" /\ reqs[r].verdict \in {"ignored", "accepted"} =>
            reqs[r].sig = Hmac(webhookSecret)

----------------------------------------------------------------------------
(* Claims about the mapper.                                                *)

\* C6: when the SKU is non-empty after trimming, deriveCode returns the
\* trimmed SKU whatever the barcode and name are; when the SKU is empty and
\* the barcode is non-empty after trimming, it returns the trimmed barcode
\* whatever the name is.
C6_DeriveCodePrecedence ==
    call = "deriveCode" =>
        /\ Trim(unit.sku) # <<>> => result = Trim(unit.sku)
        /\ Trim(unit.sku) = <<>> /\ Trim(unit.barcode) # <<>>
              => result = Trim(unit.barcode)

\* A unit with a padded SKU, a barcode and a name has been derived.
C6_Witness ==
    /\ call = "deriveCode"
    /\ unit.sku = <<" ","A","1"," ">>
    /\ Trim(unit.barcode) # <<>>
    /\ unit.name # <<>>
    /\ result = SkuA1

SlugChars == Range(LowerLetters) \cup Digits \cup {"-"}

\* C7: for a unit with empty SKU and empty barcode, deriveCode returns a
\* string of lowercase letters, digits and hyphens only, of at most 150
\* characters, that neither starts nor ends with a hyphen, also when the
\* slug is cut at 150 characters.
C7_SlugShape ==
    call = "deriveCode" /\ Trim(unit.sku) = <<>> /\ Trim(unit.barcode) = <<>> =>
        /\ Range(result) \subseteq SlugChars
        /\ Len(result) <= 150
        /\ result # <<>> => Head(result) # "-" /\ result[Len(result)] # "-"

\* C8: needsUpdate is false exactly when the good's price equals
\* round(unit.price x 100) and its name equals the unit's computed name
\* (unit.name, or "Product <id>" when the name is missing).
C8_NeedsUpdateIff ==
    call = "needsUpdate" =>
        (result = FALSE <=>
            /\ existingGood.price = MathRound100(unit.price)
            /\ existingGood.name =
                  (IF unit.name = <<>> THEN ProductSpace \o IdString(unit.id)
                                       ELSE unit.name))

\* needsUpdate returned false for a nameless unit whose good carries the
\* fallback name and the rounded price.
C8_Witness ==
    /\ call = "needsUpdate"
    /\ result = FALSE
    /\ unit.name = <<>>
    /\ unit.price = 19990
    /\ existingGood.price = 1999

----------------------------------------------------------------------------
(* Claims about the catalog reconciler.                                    *)

CallsOf(run, op) == {i \in DOMAIN run.calls : run.calls[i].op = op}

\* The units whose upsert step is over.
Upserted(run) ==
    {k \in DOMAIN run.units : run.pc = "done" \/ (run.pc # "idle" /\ run.k > k)}

\* The units whose lookup by code answered "no such good".
LookedUpNull(run) ==
    {k \in Upserted(run) :
        \E i \in CallsOf(run, "getGoodByCode") :
            /\ run.calls[i].k = k
            /\ run.calls[i].ok
            /\ ~run.calls[i].arg.found}

\* A run in which no remote call failed and every unit has a name and a
\* code of its own.
Undisturbed(run) ==
    /\ \A i \in DOMAIN run.calls : run.calls[i].ok
    /\ \A k \in DOMAIN run.units :
          /\ run.units[k].unit.name # <<>>
          /\ Trim(deriveCode(run.units[k].unit)) # <<>>
          /\ \A j \in DOMAIN run.units :
                deriveCode(run.units[j].unit) = deriveCode(run.units[k].unit) => j = k

\* C2: a run that follows a completed run, with the CRM catalog unchanged
\* and the POS catalog as that run left it, issues no createGood and no
\* updateGood, reports created = 0 and updated = 0, and reports skipped equal
\* to the number of units enumerated.  Read in the claim's favour: no remote
\* call of either run fails and every unit has a name and its own code.
C2_SecondRunIdle ==
    \A r \in DOMAIN runs :
        ( /\ r > 1
          /\ runs[r].pc = "done" /\ runs[r].status = 200
          /\ runs[r - 1].status = 200
          /\ Undisturbed(runs[r - 1]) /\ Undisturbed(runs[r]) ) =>
            /\ CallsOf(runs[r], "createGood") = {}
            /\ CallsOf(runs[r], "updateGood") = {}
            /\ runs[r].summary.created = 0
            /\ runs[r].summary.updated = 0
            /\ runs[r].summary.skipped = Len(runs[r].units)

CreateGroupCalls(run, key) ==
    {i \in CallsOf(run, "createGroup") : run.calls[i].arg = key}

GroupKeys(run) == {run.calls[i].arg : i \in CallsOf(run, "createGroup")}

\* C9 as stated: within one run at most one create-group call is issued for
\* every (category name, parent group) pair.
C9_OneCreateCallPerKey ==
    \A r \in DOMAIN runs : \A key \in GroupKeys(runs[r]) :
        Cardinality(CreateGroupCalls(runs[r], key)) <= 1

\* C9 amended: within one run at most one create-group call succeeds for
\* every (category name, parent group) pair; once it has, the cache holds
\* the group, no later create-group call is issued for the pair, and the
\* cached group of a pair never changes.
C9_OneCreatedGroupPerKey ==
    /\ [](\A r \in DOMAIN runs : \A key \in GroupKeys(runs[r]) :
            \A i \in CreateGroupCalls(runs[r], key) :
                runs[r].calls[i].ok =>
                    /\ MapHas(runs[r].groupMap, key)
                    /\ \A j \in CreateGroupCalls(runs[r], key) : j <= i)
    /\ [][\A r \in DOMAIN runs : \A i \in DOMAIN runs[r].groupMap :
            /\ i \in DOMAIN runs'[r].groupMap
            /\ runs'[r].groupMap[i] = runs[r].groupMap[i]]_vars

\* Two units of one category were upserted in a run that created the
\* category's group and its parent group once each.
C9_Witness ==
    \E r \in DOMAIN runs :
        /\ runs[r].pc = "done"
        /\ Len(runs[r].units) = 2
        /\ runs[r].units[1].categoryId = 2
        /\ runs[r].units[2].categoryId = 2
        /\ Cardinality(CallsOf(runs[r], "createGroup")) = 2
        /\ \A i \in CallsOf(runs[r], "createGroup") : runs[r].calls[i].ok
        /\ Len(runs[r].groupMap) = 2

CreateGoodCalls(run, k) ==
    {i \in CallsOf(run, "createGood") : run.calls[i].k = k}

\* The createGood payload of unit k carries the derived code, the unit name
\* and the price in kopecks.
PayloadMatches(run, k) ==
    \A i \in CreateGoodCalls(run, k) :
        /\ run.calls[i].arg.code = deriveCode(run.units[k].unit)
        /\ run.calls[i].arg.name = run.units[k].unit.name
        /\ run.calls[i].arg.price = MathRound100(run.units[k].unit.price)

\* C10 as stated: a unit whose code has no POS good gets exactly one
\* createGood with code, name and rounded price, and created is incremented
\* by one for it.
C10_CreateCounted ==
    \A r \in DOMAIN runs :
        /\ \A k \in LookedUpNull(runs[r]) :
              /\ Cardinality(CreateGoodCalls(runs[r], k)) = 1
              /\ PayloadMatches(runs[r], k)
        /\ runs[r].summary.created = Cardinality(LookedUpNull(runs[r]))

\* C10 amended: a unit whose lookup by code returned null gets exactly one
\* createGood with code, name and rounded price, and created is incremented
\* by one when that call succeeds.
C10_CreateCountedOnSuccess ==
    \A r \in DOMAIN runs :
        /\ \A k \in LookedUpNull(runs[r]) :
              /\ Cardinality(CreateGoodCalls(runs[r], k)) = 1
              /\ PayloadMatches(runs[r], k)
        /\ runs[r].summary.created =
              Cardinality({i \in CallsOf(runs[r], "createGood") : runs[r].calls[i].ok})

\* {sku "A1", name "Widget", price 19.99} was created as {A1, Widget, 1999}.
C10_Witness ==
    \E r \in DOMAIN runs :
        /\ runs[r].pc = "done"
        /\ runs[r].summary.created = 1
        /\ \E i \in CallsOf(runs[r], "createGood") :
              /\ runs[r].calls[i].ok
              /\ runs[r].units[runs[r].calls[i].k].unit =
                    MapperUnit(1, SkuA1, <<>>, Widget, 19990)
              /\ runs[r].calls[i].arg.code = SkuA1
              /\ runs[r].calls[i].arg.name = Widget
              /\ runs[r].calls[i].arg.price = 1999

----------------------------------------------------------------------------
(* Further claims about the sale ingestion pipeline.                       *)

\* The decimal number ratio equals n / d.
RatioIs(ratio, n, d) == ratio.num * d = n * ratio.den

CountOf(calls, op) == Cardinality({i \in DOMAIN calls : calls[i] = op})

\* A SELL receipt with order_id null, total_sum 3998 and the single line
\* {good: {code: "A1"}, quantity: 2000}, whatever else the line carries.
IsScenarioReceipt(rc) ==
    /\ rc.type = "SELL"
    /\ rc.order_id = "null"
    /\ rc.total_sum = 3998
    /\ Len(rc.goods) = 1
    /\ rc.goods[1].code = SkuA1
    /\ rc.goods[1].quantity = 2000

\* The order of the scenario: one createOrder call, one product line with
\* quantity 2 and price 19.99.
ScenarioOrder(q) ==
    /\ q.pc \in {"update", "SUBMITTED", "DUPLICATE"} => CountOf(q.calls, "createOrder") = 1
    /\ CountOf(q.calls, "createOrder") <= 1
    /\ (q.pc = "create" \/ CountOf(q.calls, "createOrder") = 1) =>
          /\ Len(q.products) = 1
          /\ q.products[1].sku = SkuA1
          /\ RatioIs(q.products[1].quantity, 2, 1)
          /\ RatioIs(q.products[1].price, 1999, 100)

\* C11 as stated: the accepted scenario receipt produces exactly one
\* createOrder call with one product line of quantity 2 and price 19.99.
C11_ScenarioLine ==
    \A r \in DOMAIN reqs :
        (reqs[r].verdict = "accepted" /\ IsScenarioReceipt(ReceiptOf(reqs[r].body)))
            => ScenarioOrder(reqs[r])

\* C11 amended: the same when the line's good carries price 1999.
C11_ScenarioLinePriced ==
    \A r \in DOMAIN reqs :
        ( /\ reqs[r].verdict = "accepted"
          /\ IsScenarioReceipt(ReceiptOf(reqs[r].body))
          /\ ReceiptOf(reqs[r].body).goods[1].price = 1999 )
            => ScenarioOrder(reqs[r])

\* The priced scenario receipt was resolved by its code and submitted.
C11_Witness ==
    \E r \in DOMAIN reqs :
        /\ reqs[r].pc = "SUBMITTED"
        /\ ReceiptOf(reqs[r].body) =
              SaleReceipt("r1", "SELL", "null", <<LineA1>>, "c1", 3998)
        /\ reqs[r].calls = <<"getOfferBySku", "createOrder", "updateOrder">>
        /\ Len(orders) = 1
        /\ orders[1].payload.products = reqs[r].products

----------------------------------------------------------------------------
(* Further claims about the catalog reconciler.                            *)

\* The calls that are not inside a per-unit try: a failure of one of them
\* reaches the outer catch.
AbortingOps == {"getAllProducts", "getOffersByProduct"}

Aborted(run) ==
    \E i \in DOMAIN run.calls : run.calls[i].op \in AbortingOps /\ ~run.calls[i].ok

\* C12: the sync endpoint answers 401 without any remote call when the
\* secret does not match; otherwise 200 with the summary, also when units
\* failed, and 500 only when a failure aborted the run, the body then
\* carrying the summary fields and an error field.
C12_SyncStatus ==
    \A r \in DOMAIN runs :
        LET run == runs[r] IN
        run.pc = "done" =>
            /\ run.status \in {200, 401, 500}
            /\ run.status = 401 <=> ~run.authorized
            /\ run.status = 401 => run.calls = <<>>
            /\ run.status = 500 <=> Aborted(run)
            /\ run.status = 500 => SummaryFields \cup {"error"} \subseteq run.bodyFields
            /\ run.status = 200 =>
                  /\ SummaryFields \subseteq run.bodyFields
                  /\ "error" \notin run.bodyFields

\* A run in which a unit failed was answered 200.
C12_Witness ==
    \E r \in DOMAIN runs :
        /\ runs[r].pc = "done"
        /\ runs[r].status = 200
        /\ runs[r].summary.errors # <<>>
        /\ \E i \in DOMAIN runs[r].calls : ~runs[r].calls[i].ok

----------------------------------------------------------------------------
(* Claims about the Checkbox client.                                       *)

Settled(wrapped) == wrapped.pc \in {"returned", "thrown"}

\* What holds of every call under withRetry whatever the login does: a first
\* failure other than 401 propagates without login or retry, and a failed
\* second attempt propagates without a further login or retry.
RetryFrame(wrapped) ==
    /\ Len(wrapped.attempts) <= 2
    /\ wrapped.logins <= 1
    /\ Settled(wrapped) =>
          /\ Len(wrapped.attempts) >= 1
          /\ ~IsAuthExpired(wrapped.attempts[1]) =>
                /\ wrapped.logins = 0
                /\ Len(wrapped.attempts) = 1
                /\ Throws(wrapped.op, wrapped.attempts[1]) =>
                      wrapped.pc = "thrown" /\ wrapped.error = wrapped.attempts[1]
          /\ (Len(wrapped.attempts) = 2 /\ Throws(wrapped.op, wrapped.attempts[2])) =>
                wrapped.pc = "thrown" /\ wrapped.error = wrapped.attempts[2]

\* C13 as stated: after a first attempt that failed with 401 exactly one
\* login is performed and the call is attempted exactly once more.
C13_RetryOnce ==
    \A c \in DOMAIN posCalls :
        LET wrapped == posCalls[c] IN
        /\ RetryFrame(wrapped)
        /\ (Settled(wrapped) /\ IsAuthExpired(wrapped.attempts[1])) =>
              wrapped.logins = 1 /\ Len(wrapped.attempts) = 2

\* C13 amended: after a first attempt that failed with 401 exactly one login
\* is performed; the call is attempted exactly once more when the login
\* succeeds, and not again when the login fails, whose error propagates.
C13_RetryOnceAfterLogin ==
    \A c \in DOMAIN posCalls :
        LET wrapped == posCalls[c] IN
        /\ RetryFrame(wrapped)
        /\ (Settled(wrapped) /\ IsAuthExpired(wrapped.attempts[1])) =>
              /\ wrapped.logins = 1
              /\ wrapped.loginOk => Len(wrapped.attempts) = 2
              /\ ~wrapped.loginOk => Len(wrapped.attempts) = 1 /\ wrapped.pc = "thrown"

\* A call got 401, logged in again and succeeded at the second attempt.
C13_Witness ==
    \E c \in DOMAIN posCalls :
        /\ posCalls[c].pc = "returned"
        /\ posCalls[c].attempts = <<401, 200>>
        /\ posCalls[c].logins = 1

----------------------------------------------------------------------------
(* Claims about the stages of a webhook call.                              *)

StageNames ==
    {"RECEIVED", "SIGNATURE_CHECK", "FILTER", "RESOLVE", "BUILD", "SUBMITTED",
     "REJECTED", "IGNORED", "FAILED", "SKIPPED"}

CrmOps ==
    {"getOfferBySku", "getOfferByBarcode", "getProductByName", "createOrder",
     "updateOrder"}

IsStage(e) == e \in StageNames

\* The stages a call went through, in order.
Stages(q) == SelectSeq(q.log, IsStage)

\* The moves of the stage machine as claimed.
ClaimedMoves ==
    { <<"RECEIVED", "SIGNATURE_CHECK">>,
      <<"SIGNATURE_CHECK", "FILTER">>, <<"SIGNATURE_CHECK", "REJECTED">>,
      <<"FILTER", "RESOLVE">>, <<"FILTER", "IGNORED">>,
      <<"RESOLVE", "BUILD">>, <<"RESOLVE", "FAILED">>,
      <<"BUILD", "SUBMITTED">>, <<"BUILD", "FAILED">>,
      <<"SUBMITTED", "FAILED">> }

\* A call follows the machine, answers an accepted event before its first
\* CRM call, and never answers again.
FollowsMachine(q, moves) ==
    LET st == Stages(q) IN
    /\ q.pc # "new" => st # <<>> /\ st[1] = "RECEIVED"
    /\ \A i \in 1..(Len(st) - 1) : <<st[i], st[i + 1]>> \in moves
    /\ \A i, j \in DOMAIN q.log :
          (q.log[i] = "response" /\ q.log[j] \in CrmOps) => i < j
    /\ \A j \in DOMAIN q.log :
          q.log[j] \in CrmOps => \E i \in DOMAIN q.log : q.log[i] = "response"
    /\ Cardinality({i \in DOMAIN q.log : q.log[i] = "response"}) <= 1
    /\ q.pc = "FAILED" => q.responses = <<200>>

\* C14 as stated: every call moves RECEIVED, SIGNATURE_CHECK, FILTER,
\* RESOLVE, BUILD, SUBMITTED in that order, leaving only to REJECTED, IGNORED
\* or FAILED; an accepted event is answered before its first CRM call and an
\* exception after the response neither changes nor repeats it.
C14_StageOrder == \A r \in DOMAIN reqs : FollowsMachine(reqs[r], ClaimedMoves)

\* C14 amended: the same, with one more way out: a call whose receipt
\* yields no product line ends after RESOLVE without building an order.
C14_StageOrderWithSkip ==
    \A r \in DOMAIN reqs :
        FollowsMachine(reqs[r], ClaimedMoves \cup {<<"RESOLVE", "SKIPPED">>})

\* A call went through every stage and then failed in its follow-up update.
C14_Witness ==
    \E r \in DOMAIN reqs :
        reqs[r].log = <<"RECEIVED", "SIGNATURE_CHECK", "FILTER", "response", "RESOLVE",
                        "getOfferBySku", "BUILD", "createOrder", "SUBMITTED",
                        "updateOrder", "FAILED">>

----------------------------------------------------------------------------
(* Claims about what each flow may write.                                  *)

CrmWrites == {"createOrder", "updateOrder"}

PosWrites == {"createGood", "updateGood", "createGroup"}

PosDeletes == {"deleteGood", "deleteGroup"}

\* The remote operations a run has called.
RunOps(run) == {run.calls[i].op : i \in DOMAIN run.calls}

\* The remote operations a webhook call has called.
ReqOps(q) == {q.calls[i] : i \in DOMAIN q.calls}

\* Every good and every group of the POS is still there after the step.
NothingDeleted ==
    /\ Len(posGoods') >= Len(posGoods)
    /\ \A i \in DOMAIN posGoods : posGoods'[i].id = posGoods[i].id
    /\ Len(posGroups') >= Len(posGroups)
    /\ \A i \in DOMAIN posGroups : posGroups'[i] = posGroups[i]

\* C15: a reconciliation run issues no order write to the CRM and leaves the
\* orders alone; the sale pipeline issues no good or group write to the POS
\* and leaves its goods and groups alone; no step of either flow deletes a
\* good or a group.
C15_Frame ==
    /\ [](/\ \A r \in DOMAIN runs :
                RunOps(runs[r]) \cap (CrmWrites \cup PosDeletes) = {}
          /\ \A r \in DOMAIN reqs :
                ReqOps(reqs[r]) \cap (PosWrites \cup PosDeletes) = {})
    /\ [][/\ runs' # runs => orders' = orders
          /\ reqs' # reqs => posGoods' = posGoods /\ posGroups' = posGroups
          /\ NothingDeleted]_vars

\* Both flows have written: the run a group and a good and an update of a
\* good, the sale an order.
C15_Witness ==
    /\ \E r \in DOMAIN runs :
          {"createGroup", "createGood", "updateGood"} \subseteq RunOps(runs[r])
    /\ \E r \in DOMAIN reqs : CrmWrites \subseteq ReqOps(reqs[r])
    /\ orders # <<>>
    /\ Len(posGoods) = 2

----------------------------------------------------------------------------
(* Claims about the signed-in cashier identity.                            *)

\* C16: after startup no step, of a webhook call or of a POS call with the
\* login it triggers, changes the cashier identity that the webhook's
\* cashier guard reads.
C16_CashierReadOnly == [][cashierId' = cashierId]_vars

----------------------------------------------------------------------------
(* Claims about concurrent reconciliation runs.                            *)

\* Two runs were in progress at the same time.
Overlap(r, s) == s \in runs[r].beside \/ r \in runs[s].beside

\* The keys of the groups a run created.
CreatedKeys(run) ==
    {run.calls[i].arg : i \in {j \in CallsOf(run, "createGroup") : run.calls[j].ok}}

\* The codes a run called createGood with.
CreateCodes(run) == {run.calls[i].arg.code : i \in CallsOf(run, "createGood")}

----------------------------------------------------------------------------
(* Claims about the order of the filter guards.                            *)

\* The five guards, each taken by itself, in the order claimed.
GuardMatches(body) ==
    << ~HasReceipt(body),
       ReceiptOf(body).type \notin {"", "SELL", "sell"},
       ReceiptOf(body).order_id # "null",
       /\ Len(ReceiptOf(body).goods) >= 1
       /\ \A i \in DOMAIN ReceiptOf(body).goods :
             ReceiptOf(body).goods[i].good_id = "null",
       /\ cashierId # "null"
       /\ ReceiptOf(body).cashier \notin {"null", cashierId} >>

GuardReasons ==
    << "no receipt object found", "receipt.type", "fiscalization receipt",
       "all good_id null", "cashier mismatch" >>

Matching(body) == {g \in DOMAIN GuardReasons : GuardMatches(body)[g]}

LowestMatching(body) ==
    CHOOSE g \in Matching(body) : \A h \in Matching(body) : g <= h

\* C18: the guards are tried in the order no receipt object, type present
\* and not SELL, order reference set, every line without good reference,
\* known cashier mismatch; a delivery that passed the signature check is
\* ignored with the reason of the lowest guard that matches, and then no
\* product is resolved and no order created; it is accepted when none does.
C18_GuardOrder ==
    \A r \in DOMAIN reqs :
        LET q == reqs[r] IN
        (q.pc # "new" /\ q.verdict # "rejected") =>
            IF Matching(q.body) = {}
              THEN q.verdict = "accepted" /\ q.reason = ""
              ELSE /\ q.verdict = "ignored"
                   /\ q.reason = GuardReasons[LowestMatching(q.body)]
                   /\ q.pc = "IGNORED"
                   /\ q.calls = <<>>
                   /\ q.products = <<>>
                   /\ orders = <<>>

\* A delivery that matches the order guard, the good reference guard and
\* the cashier guard at once was ignored for the order reference.
C18_Witness ==
    \E r \in DOMAIN reqs :
        /\ reqs[r].pc = "IGNORED"
        /\ Matching(reqs[r].body) = {3, 4, 5}
        /\ reqs[r].reason = "fiscalization receipt"

----------------------------------------------------------------------------
(* Claims about a unit whose calls fail.                                   *)

\* The lookups of a run that failed.
FailedLookups(run) == {i \in CallsOf(run, "getGoodByCode") : ~run.calls[i].ok}

\* The errors of a run for a reason.
ErrorsFor(run, reason) ==
    {i \in DOMAIN run.summary.errors : run.summary.errors[i].reason = reason}

\* The calls a run made for unit k.
UnitCalls(run, k) == {i \in DOMAIN run.calls : run.calls[i].k = k}

\* A unit the loop looks up: it has a name and a code.
LookedUp(run, k) ==
    /\ run.units[k].unit.name # <<>>
    /\ Trim(deriveCode(run.units[k].unit)) # <<>>

\* C19: a failed lookup by code appends exactly one error, which carries the
\* code; no create, update or group call is made for that unit; the run goes
\* on to the later units and answers 200.
C19_LookupFailureSkipsUnit ==
    \A r \in DOMAIN runs :
        LET run == runs[r] IN
        /\ Cardinality(ErrorsFor(run, "Error checking code")) =
              Cardinality(FailedLookups(run))
        /\ \A i \in FailedLookups(run) :
              /\ UnitCalls(run, run.calls[i].k) = {i}
              /\ \E e \in ErrorsFor(run, "Error checking code") :
                    run.summary.errors[e].who = run.calls[i].arg.code
              /\ run.k > run.calls[i].k
              /\ run.pc = "done" =>
                    /\ run.status = 200
                    /\ \A k \in (run.calls[i].k + 1)..Len(run.units) :
                          LookedUp(run, k) => UnitCalls(run, k) # {}

\* The lookup of the first of two units failed; the run went on to create
\* the second and answered 200.
C19_Witness ==
    \E r \in DOMAIN runs :
        /\ runs[r].pc = "done"
        /\ runs[r].status = 200
        /\ \E i \in FailedLookups(runs[r]) :
              /\ runs[r].calls[i].k = 1
              /\ \E j \in CallsOf(runs[r], "createGood") :
                    runs[r].calls[j].k = 2 /\ runs[r].calls[j].ok

\* The createGood calls of a run that were answered with one of the statuses.
CreateAnswers(run, statuses) ==
    {i \in CallsOf(run, "createGood") : run.calls[i].status \in statuses}

\* The units the loop is through with.
Passed(run) == {k \in DOMAIN run.units : k < run.k}

\* The units passed over for an empty code, and those found unchanged.
CodelessUnits(run) ==
    {k \in Passed(run) :
        run.units[k].unit.name # <<>> /\ Trim(deriveCode(run.units[k].unit)) = <<>>}

UnchangedUnits(run) ==
    {k \in Passed(run) :
        /\ \E i \in CallsOf(run, "getGoodByCode") :
              run.calls[i].k = k /\ run.calls[i].ok /\ run.calls[i].arg.found
        /\ \A i \in CallsOf(run, "updateGood") : run.calls[i].k # k}

----------------------------------------------------------------------------
(* Claims about group assignment.                                          *)

\* The createGroup calls of a run that failed.
FailedGroupCalls(run) == {i \in CallsOf(run, "createGroup") : ~run.calls[i].ok}

\* The create or update calls made for unit k after call i.
WritesAfter(run, k, i) ==
    {j \in CallsOf(run, "createGood") \cup CallsOf(run, "updateGood") :
        run.calls[j].k = k /\ j > i}

\* The units passed over for having no name.
NamelessUnits(run) == {k \in Passed(run) : run.units[k].unit.name = <<>>}

\* The reasons an entry of errors can have.
ErrorReasons ==
    {"Missing name, skipped", "Empty code", "Error checking code",
     "Failed to create", "Failed to update"}

PrefetchFailed(run) ==
    \E i \in DOMAIN run.calls :
        run.calls[i].op \in {"getProductCategories", "getGroups"} /\ ~run.calls[i].ok

\* C22: when the prefetch of the CRM categories or of the POS groups fails,
\* the run goes on to the products, the group id of every unit is null and
\* the run calls createGroup never; it ends 200 unless the product listing
\* aborts it.
C22_PrefetchFailureNoGroups ==
    \A r \in DOMAIN runs :
        LET run == runs[r] IN
        PrefetchFailed(run) =>
            /\ run.pc # "prefetch"
            /\ run.keycrmCats = NoCategories
            /\ run.groupMap = <<>>
            /\ run.groupId = 0
            /\ run.parentGroupId = 0
            /\ run.pc \notin {"parentGroup", "ownGroup"}
            /\ CallsOf(run, "createGroup") = {}
            /\ run.pc = "done" =>
                  /\ CallsOf(run, "getAllProducts") # {}
                  /\ run.status = 200 <=> ~Aborted(run)

\* A run whose prefetch failed created the good of a unit that has a
\* category and ended 200.
C22_Witness ==
    \E r \in DOMAIN runs :
        /\ PrefetchFailed(runs[r])
        /\ runs[r].pc = "done"
        /\ runs[r].status = 200
        /\ \E j \in CallsOf(runs[r], "createGood") :
              /\ runs[r].calls[j].ok
              /\ runs[r].units[runs[r].calls[j].k].categoryId # 0

----------------------------------------------------------------------------
(* Claims about the group cache.                                           *)

\* The group listings of a run, and those that succeeded.
Listings(run) == CallsOf(run, "getAllGroups")

GoodListings(run) == {i \in Listings(run) : run.calls[i].ok}

\* The run is between its auth guard and its response.
InProgress(run) == run.pc \notin {"idle", "done"}

\* A run in progress sees a cache that is empty until its own listing, and
\* afterwards holds only groups of the POS under their keys; no run lists
\* the groups again after a listing succeeded.
CacheOfThisRun(run) ==
    /\ (InProgress(run) /\ GoodListings(run) = {}) => groupCache = NoCache
    /\ InProgress(run) =>
          \A e \in DOMAIN groupCache.map :
              \E g \in DOMAIN posGroups :
                  /\ posGroups[g].id = groupCache.map[e].value
                  /\ groupCache.map[e].key =
                        CacheKey(posGroups[g].name, posGroups[g].parent_id)
    /\ \A i \in GoodListings(run) : \A j \in Listings(run) : j <= i

----------------------------------------------------------------------------
(* Claims about the nesting and the keys of groups.                        *)

\* The category of unit k of a run, and the parent of a category.
UnitCategory(run, k) == run.keycrmCats[run.units[k].categoryId]

HasParent(run, cat) == cat.parent_id \in DOMAIN run.keycrmCats

\* The POS group of an id.
GroupOfId(id) == posGroups[CHOOSE g \in DOMAIN posGroups : posGroups[g].id = id]

\* C24: groups nest at most two levels.  For a category with a parent the
\* parent is resolved or created first, as a top-level group whatever its
\* own parent, and the category is created under that group; a category
\* without a parent is created top-level; no group has a parent that has a
\* parent.
C24_TwoLevels ==
    /\ \A g \in DOMAIN posGroups :
          posGroups[g].parent_id # 0 => GroupOfId(posGroups[g].parent_id).parent_id = 0
    /\ \A r \in DOMAIN runs : \A i \in CallsOf(runs[r], "createGroup") :
          LET run == runs[r]
              cat == UnitCategory(run, run.calls[i].k)
              key == run.calls[i].arg
          IN  IF HasParent(run, cat)
                THEN \/ key = GroupKey(run.keycrmCats[cat.parent_id].name, 0)
                     \/ /\ key.name = GroupKey(cat.name, 0).name
                        /\ key.parent # 0
                        /\ GroupKey(GroupOfId(key.parent).name,
                                    GroupOfId(key.parent).parent_id) =
                              GroupKey(run.keycrmCats[cat.parent_id].name, 0)
                        /\ \A j \in CallsOf(run, "createGroup") :
                              (run.calls[j].k = run.calls[i].k /\ j # i) => j < i
                ELSE key = GroupKey(cat.name, 0)

\* For a unit whose category has a parent that has a parent, a run created
\* the parent as a top-level group and then the category under it.
C24_Witness ==
    \E r \in DOMAIN runs : \E i, j \in CallsOf(runs[r], "createGroup") :
        /\ runs[r].calls[i].ok /\ runs[r].calls[j].ok
        /\ i < j
        /\ runs[r].calls[i].k = runs[r].calls[j].k
        /\ UnitCategory(runs[r], runs[r].calls[i].k).name = Sencha
        /\ runs[r].calls[i].arg = GroupKey(Green, 0)
        /\ runs[r].calls[j].arg.name = GroupKey(Sencha, 0).name
        /\ runs[r].calls[j].arg.parent # 0

\* A name without its letter case and surrounding whitespace.
Norm(name) == Trim(ToLowerCase(name))

\* The units of a run decided with a group.
Grouped(run) == {e \in DOMAIN run.decided : run.decided[e].groupId # 0}

C26_OneUnitAtATime ==
    [][\A r \in DOMAIN runs :
          LET old == runs[r]
              new == runs'[r]
          IN  /\ new.k >= old.k
              /\ \A i \in DOMAIN new.calls \ DOMAIN old.calls :
                    /\ new.calls[i].k = old.k
                    /\ \A j \in 1..(i - 1) : new.calls[j].k <= new.calls[i].k]_vars

\* A finished run whose first unit had a failed call and whose second unit
\* was looked up and written.
C26_Witness ==
    \E r \in DOMAIN runs :
        /\ runs[r].pc = "done"
        /\ \E i \in UnitCalls(runs[r], 1) : ~runs[r].calls[i].ok
        /\ Cardinality(UnitCalls(runs[r], 2)) >= 2

\* The decisions of a run on units found in the POS.
FoundUnits(run) == {e \in DOMAIN run.decided : run.decided[e].found}

\* The price or the name of the good differs from the unit's, or a group
\* was resolved for the unit and the good is not assigned to it.
Changed(good, u, groupId) ==
    \/ good.price # MathRound100(u.price)
    \/ good.name # DisplayName(u)
    \/ (groupId # 0 /\ good.group_id # groupId)

\* The updateGood and the createGood calls of a run for unit k.
UpdatesOf(run, k) == CallsOf(run, "updateGood") \cap UnitCalls(run, k)

CreatesOf(run, k) == CallsOf(run, "createGood") \cap UnitCalls(run, k)

\* The found units the loop is through with and left as they were.
LeftAlone(run) ==
    {e \in FoundUnits(run) :
        /\ run.decided[e].k \in Passed(run)
        /\ ~Changed(run.decided[e].existing, run.units[run.decided[e].k].unit,
                    run.decided[e].groupId)}

ErrorsAbout(run, reason, id) ==
    {e \in ErrorsFor(run, reason) : run.summary.errors[e].who = id}

\* C28: a unit without a name appends one error and makes no remote call; a
\* unit whose code is empty after trimming appends one error, counts in
\* skipped and makes no remote call; in both cases the run goes on with the
\* later units and answers 200.
C28_NamelessAndCodelessUnits ==
    \A r \in DOMAIN runs :
        LET run == runs[r] IN
        /\ \A k \in NamelessUnits(run) :
              /\ UnitCalls(run, k) = {}
              /\ Cardinality(ErrorsAbout(run, "Missing name, skipped",
                                         run.units[k].unit.id)) = 1
              /\ ErrorsAbout(run, "Empty code", run.units[k].unit.id) = {}
        /\ \A k \in CodelessUnits(run) :
              /\ UnitCalls(run, k) = {}
              /\ Cardinality(ErrorsAbout(run, "Empty code", run.units[k].unit.id)) = 1
        /\ Cardinality(ErrorsFor(run, "Missing name, skipped")) =
              Cardinality(NamelessUnits(run))
        /\ Cardinality(ErrorsFor(run, "Empty code")) = Cardinality(CodelessUnits(run))
        /\ run.summary.skipped - Cardinality(CodelessUnits(run)) =
              Cardinality({e \in FoundUnits(run) :
                              /\ run.decided[e].k \in Passed(run)
                              /\ UpdatesOf(run, run.decided[e].k) = {}})
              + Cardinality(CreateAnswers(run, {422}))
        /\ run.pc = "done" /\ run.units # <<>> =>
              /\ run.status = 200
              /\ Passed(run) = DOMAIN run.units
              /\ \A k \in DOMAIN run.units : LookedUp(run, k) => UnitCalls(run, k) # {}

\* A run passed over a unit without a name and one without a code, wrote the
\* unit after them and is done with one unit skipped and two errors.
C28_Witness ==
    \E r \in DOMAIN runs :
        LET run == runs[r] IN
        /\ run.pc = "done"
        /\ NamelessUnits(run) # {}
        /\ CodelessUnits(run) # {}
        /\ run.summary.skipped = 1
        /\ Len(run.summary.errors) = 2
        /\ \E k \in DOMAIN run.units :
              /\ \A n \in NamelessUnits(run) \cup CodelessUnits(run) : n < k
              /\ \E i \in CreatesOf(run, k) \cup UpdatesOf(run, k) : run.calls[i].ok

\* A run that has enumerated every product it fetched.
Enumerated(run) ==
    /\ \E i \in CallsOf(run, "getAllProducts") : run.calls[i].ok
    /\ run.p > Len(run.products)

\* What a unit is of: the id of the product or offer, whether it is an
\* offer, the product it belongs to and that product's category.
UnitTag(entry) ==
    [ id         |-> entry.unit.id,
      isOffer    |-> entry.isOffer,
      productId  |-> entry.productId,
      categoryId |-> entry.categoryId ]

\* The units the fetched products stand for: a product without variants
\* itself, a product with variants each of its offers.
ExpectedTags(run) ==
    {[id |-> run.products[i].id, isOffer |-> FALSE,
      productId |-> run.products[i].id, categoryId |-> run.products[i].category_id] :
        i \in {j \in DOMAIN run.products : ~run.products[j].has_offers}}
    \cup
    UNION {{[id |-> run.products[i].offers[o].id, isOffer |-> TRUE,
             productId |-> run.products[i].id,
             categoryId |-> run.products[i].category_id] :
               o \in DOMAIN run.products[i].offers} :
             i \in {j \in DOMAIN run.products : run.products[j].has_offers}}

\* The payloads a run sent in createGood and updateGood calls, by unit.
SentPayloads(run) ==
    {[k |-> run.calls[i].k, payload |-> run.calls[i].arg] :
        i \in CallsOf(run, "createGood")}
    \cup
    {[k |-> run.calls[i].k, payload |-> run.calls[i].arg.payload] :
        i \in CallsOf(run, "updateGood")}

\* C29: a product without variants contributes exactly one unit, itself,
\* not an offer; a product with variants contributes one unit per offer,
\* each an offer carrying the product's id and category, and not itself.
\* The external id of a payload is the offer tag with the offer's id for an
\* offer and the product tag with the product's id otherwise.
C29_UnitEnumeration ==
    \A r \in DOMAIN runs :
        LET run == runs[r] IN
        /\ Enumerated(run) =>
              /\ {UnitTag(run.units[k]) : k \in DOMAIN run.units} = ExpectedTags(run)
              /\ Len(run.units) = Cardinality(ExpectedTags(run))
        /\ \A sent \in SentPayloads(run) :
              LET entry == run.units[sent.k] IN
              sent.payload.external_id =
                  IF entry.isOffer THEN <<"keycrm_offer", entry.unit.id>>
                                   ELSE <<"keycrm_product", entry.productId>>

\* A run enumerated a product with two offers and a product without, and
\* sent a payload for an offer and one for a product.
C29_Witness ==
    \E r \in DOMAIN runs :
        LET run == runs[r] IN
        /\ Enumerated(run)
        /\ \E i \in DOMAIN run.products :
              run.products[i].has_offers /\ Len(run.products[i].offers) = 2
        /\ \E i \in DOMAIN run.products : ~run.products[i].has_offers
        /\ \E sent \in SentPayloads(run) : run.units[sent.k].isOffer
        /\ \E sent \in SentPayloads(run) : ~run.units[sent.k].isOffer

----------------------------------------------------------------------------
(* Claims about the resolution of a sale line.                             *)

\* The lookups of a request for a line, as indices of its lookups.
LineLookups(q, line) == {j \in DOMAIN q.lookups : q.lookups[j].line = line}

\* The place of a lookup in the chain.
LookupRank(op) ==
    IF op = "getOfferBySku" THEN 1 ELSE IF op = "getOfferByBarcode" THEN 2 ELSE 3

\* C30: a sale line is resolved by SKU, then by barcode, then by name, and
\* the first success wins.  The lookups of a line come in that order, each
\* at most once; a barcode lookup is issued only when the line has no code
\* or the lookup by code returned nothing; a name lookup only when every
\* earlier lookup of the line returned nothing; a lookup that found the
\* product is the last of its line.
C30_LookupChain ==
    \A r \in DOMAIN reqs :
        LET q == reqs[r] IN
        \A j \in DOMAIN q.lookups :
            LET l == q.lookups[j]
                goodItem == ReceiptOf(q.body).goods[l.line]
                earlier == {h \in LineLookups(q, l.line) : h < j}
            IN  /\ \A h \in earlier :
                      /\ LookupRank(q.lookups[h].op) < LookupRank(l.op)
                      /\ ~q.lookups[h].found
                /\ \A h \in 1..(j - 1) : q.lookups[h].line <= l.line
                /\ l.op = "getOfferBySku" => goodItem.code # <<>>
                /\ l.op = "getOfferByBarcode" =>
                      /\ goodItem.barcode # <<>>
                      /\ goodItem.code = <<>> \/
                            \E h \in earlier : q.lookups[h].op = "getOfferBySku"
                /\ l.op = "getProductByName" =>
                      /\ goodItem.name # <<>>
                      /\ goodItem.code = <<>> \/
                            \E h \in earlier : q.lookups[h].op = "getOfferBySku"
                      /\ goodItem.barcode = <<>> \/
                            \E h \in earlier : q.lookups[h].op = "getOfferByBarcode"

\* A request resolved one line by its code at the first lookup and another
\* by a later lookup after the earlier ones returned nothing.
C30_Witness ==
    \E r \in DOMAIN reqs :
        LET q == reqs[r] IN
        /\ \E j \in DOMAIN q.lookups :
              /\ q.lookups[j].op = "getOfferBySku"
              /\ q.lookups[j].found
              /\ LineLookups(q, q.lookups[j].line) = {j}
              /\ ReceiptOf(q.body).goods[q.lookups[j].line].name # <<>>
        /\ \E j \in DOMAIN q.lookups :
              /\ q.lookups[j].op # "getOfferBySku"
              /\ q.lookups[j].found
              /\ Cardinality(LineLookups(q, q.lookups[j].line)) >= 2

\* The lines of a request's receipt the loop is through with.
LinesDone(q) == {l \in DOMAIN ReceiptOf(q.body).goods : l < q.i}

\* A line without code and name that no lookup resolved.
Unidentified(q, l) ==
    /\ ReceiptOf(q.body).goods[l].code = <<>>
    /\ ReceiptOf(q.body).goods[l].name = <<>>
    /\ \A j \in LineLookups(q, l) : ~q.lookups[j].found

KeptLines(q) == {l \in LinesDone(q) : ~Unidentified(q, l)}

\* The line behind the k-th product of a request.
LineOfProduct(q, k) ==
    CHOOSE l \in KeptLines(q) : Cardinality({m \in KeptLines(q) : m <= l}) = k

\* A request whose loop went through every line of its receipt.
ThroughAllLines(q) ==
    /\ q.verdict = "accepted"
    /\ q.i > Len(ReceiptOf(q.body).goods)

\* C31: a line with neither code nor name that no lookup resolved is left
\* out of the order and every other line is kept, in order; leaving a line
\* out does not fail the receipt; when no line is kept no createOrder call
\* is made and processing ends without error.
C31_UnidentifiedLineOmitted ==
    \A r \in DOMAIN reqs :
        LET q == reqs[r] IN
        q.verdict = "accepted" =>
            /\ Len(q.products) = Cardinality(KeptLines(q))
            /\ \A k \in DOMAIN q.products :
                  LET goodItem == ReceiptOf(q.body).goods[LineOfProduct(q, k)] IN
                  /\ q.products[k].quantity = toKeycrmProduct(goodItem, NoOffer).quantity
                  /\ q.products[k].price = toKeycrmProduct(goodItem, NoOffer).price
            /\ (q.pc = "FAILED" /\ "createOrder" \notin Range(q.calls)) =>
                  /\ q.lookups # <<>>
                  /\ q.lookups[Len(q.lookups)].op # "getOfferBySku"
                  /\ ~q.lookups[Len(q.lookups)].found
                  /\ faults > 0
            /\ ThroughAllLines(q) =>
                  IF KeptLines(q) = {}
                    THEN /\ q.pc = "SKIPPED"
                         /\ "createOrder" \notin Range(q.calls)
                         /\ "FAILED" \notin Range(q.log)
                    ELSE q.pc = "create" \/ "createOrder" \in Range(q.calls)

\* A receipt with an unidentified line and an identified one had the first
\* left out and went on to createOrder with the second; or it had only
\* unidentified lines and ended in the skip.
C31_Witness ==
    \E r \in DOMAIN reqs :
        LET q == reqs[r] IN
        /\ ThroughAllLines(q)
        /\ \E l \in LinesDone(q) : Unidentified(q, l)
        /\ \E l \in LinesDone(q) : ~Unidentified(q, l) /\ LineLookups(q, l) # {}
        /\ Len(q.products) = 1
        /\ "createOrder" \in Range(q.calls)

----------------------------------------------------------------------------
(* Claims about the order payload and the calls that carry it.             *)

\* C32: an order payload has exactly one payment line, with the configured
\* payment method and the receipt total divided by 100 as amount, if and
\* only if the receipt total is greater than 0, and no payments otherwise;
\* its idempotency key is the receipt's id.
C32_PaymentIffTotalPositive ==
    \A r \in DOMAIN reqs : \A s \in DOMAIN reqs[r].sent :
        LET payload == reqs[r].sent[s]
            receipt == ReceiptOf(reqs[r].body)
        IN  /\ payload.source_uuid = receipt.id
            /\ (Len(payload.payments) = 1) <=> (receipt.total_sum > 0)
            /\ Len(payload.payments) <= 1
            /\ \A k \in DOMAIN payload.payments :
                  /\ payload.payments[k].payment_method_id = PaymentMethodId
                  /\ payload.payments[k].amount = Ratio(receipt.total_sum, 100)

\* A payload with its payment line was sent for a receipt with a positive
\* total.
C32_Witness ==
    \E r \in DOMAIN reqs : \E s \in DOMAIN reqs[r].sent :
        /\ ReceiptOf(reqs[r].body).total_sum > 0
        /\ Len(reqs[r].sent[s].payments) = 1
        /\ reqs[r].sent[s].source_uuid = "r1"

\* A payload without payments was sent for a receipt with total 0.
C32_WitnessNoTotal ==
    \E r \in DOMAIN reqs : \E s \in DOMAIN reqs[r].sent :
        /\ ReceiptOf(reqs[r].body).total_sum = 0
        /\ reqs[r].sent[s].payments = <<>>

\* The places of an operation among the KeyCRM calls of a request.
CallsNamed(q, op) == {i \in DOMAIN q.calls : q.calls[i] = op}

\* C33: a processing of a receipt issues at most one createOrder and at
\* most one updateOrder; the updateOrder comes after a createOrder that
\* succeeded and returned an order id, never after a duplicate-key answer
\* or another failure; a failed update ends the processing, with no second
\* update and no second createOrder.
C33_SingleCreateSingleUpdate ==
    \A r \in DOMAIN reqs :
        LET q == reqs[r] IN
        /\ Cardinality(CallsNamed(q, "createOrder")) <= 1
        /\ Cardinality(CallsNamed(q, "updateOrder")) <= 1
        /\ \A u \in CallsNamed(q, "updateOrder") :
              /\ \E c \in CallsNamed(q, "createOrder") : c < u
              /\ q.createResp.status = 200
              /\ q.createResp.id # 0
              /\ q.orderId = q.createResp.id
              /\ u = Len(q.calls)
              /\ q.pc \in {"SUBMITTED", "FAILED"}
        /\ (CallsNamed(q, "createOrder") # {} /\ q.createResp.status # 200) =>
              /\ q.pc \in {"DUPLICATE", "FAILED"}
              /\ q.calls[Len(q.calls)] = "createOrder"

\* One processing ended in FAILED on its single updateOrder, after its
\* createOrder had succeeded, and another, of the same receipt, got the
\* duplicate-key answer and issued no update.
C33_Witness ==
    \E r, d \in DOMAIN reqs :
        /\ reqs[r].pc = "FAILED"
        /\ CallsNamed(reqs[r], "updateOrder") # {}
        /\ reqs[r].createResp.status = 200
        /\ reqs[d].pc = "DUPLICATE"
        /\ ReceiptOf(reqs[d].body).id = ReceiptOf(reqs[r].body).id
        /\ CallsNamed(reqs[d], "updateOrder") = {}

----------------------------------------------------------------------------
(* Claims about the lookup by code under withRetry.                        *)

\* The lookups of a run that the POS answered with 404 at some attempt.
NotFoundLookups(run) ==
    {i \in CallsOf(run, "getGoodByCode") : 404 \in Range(run.calls[i].arg.attempts)}

\* The attempts of a call that were answered 401.
Expired(attempts) == {a \in DOMAIN attempts : attempts[a] = 401}

\* C34: not found is a value.  A lookup by code the POS answers with 404
\* returns null: the 404 is the last attempt, it causes no login and no
\* further attempt, no error is recorded, and the unit takes the create
\* branch.  A lookup whose last answer is any other failure is raised: the
\* unit gets the lookup error and neither a create nor an update.
C34_NotFoundIsNull ==
    \A r \in DOMAIN runs :
        LET run == runs[r] IN
        /\ \A i \in NotFoundLookups(run) :
              LET lookup == run.calls[i]
                  attempts == lookup.arg.attempts
              IN  /\ attempts[Len(attempts)] = 404
                  /\ lookup.arg.logins = Cardinality(Expired(attempts))
                  /\ Len(attempts) = 1 + lookup.arg.logins
                  /\ lookup.ok
                  /\ ~lookup.arg.found
                  /\ UpdatesOf(run, lookup.k) = {}
                  /\ lookup.k \in Passed(run) =>
                        Cardinality(CreatesOf(run, lookup.k)) = 1
                  /\ (lookup.k = run.k /\ run.pc \notin {"create", "done"})
                        => run.pc \in {"parentGroup", "ownGroup"}
        /\ \A i \in CallsOf(run, "getGoodByCode") :
              LET lookup == run.calls[i]
                  answer == lookup.arg.attempts[Len(lookup.arg.attempts)]
              IN  /\ lookup.ok <=> answer \in {200, 404}
                  /\ ~lookup.ok =>
                        /\ CreatesOf(run, lookup.k) \cup UpdatesOf(run, lookup.k) = {}
                        /\ \E e \in ErrorsFor(run, "Error checking code") :
                              run.summary.errors[e].who = lookup.arg.code
        /\ Cardinality(ErrorsFor(run, "Error checking code")) =
              Cardinality({i \in CallsOf(run, "getGoodByCode") : ~run.calls[i].ok})

\* A finished run whose lookup was answered 404 at the only attempt, with no
\* login, and was followed by the createGood of the unit.
C34_Witness ==
    \E r \in DOMAIN runs : \E i \in NotFoundLookups(runs[r]) :
        /\ runs[r].pc = "done"
        /\ runs[r].calls[i].arg.attempts = <<404>>
        /\ runs[r].calls[i].arg.logins = 0
        /\ \E j \in CreatesOf(runs[r], runs[r].calls[i].k) :
              j > i /\ runs[r].calls[j].status = 200

----------------------------------------------------------------------------
(* Claims about the run as a whole.                                        *)

\* The KeyCRM reads that enumerate the units, and the POS calls made for a
\* unit.
EnumerationOps == {"getAllProducts", "getOffersByProduct"}

UnitOps == {"getGoodByCode", "createGroup", "createGood", "updateGood"}

CallsAmong(run, ops) == {i \in DOMAIN run.calls : run.calls[i].op \in ops}

\* C35: the enumeration of the CRM, the product listing and the offers of
\* every product with variants, is over before the first lookup or write
\* of the run; when the listing or an offers fetch fails the run answers
\* 500 with created, updated and skipped at 0 and has made no lookup, no
\* createGood, no updateGood and no createGroup call.
C35_EnumerationBeforeUpserts ==
    \A r \in DOMAIN runs :
        LET run == runs[r] IN
        /\ \A i \in CallsAmong(run, EnumerationOps) :
              \A j \in CallsAmong(run, UnitOps) : i < j
        /\ CallsAmong(run, UnitOps) # {} =>
              /\ Enumerated(run)
              /\ \A i \in DOMAIN run.products :
                    run.products[i].has_offers =>
                        \E j \in CallsOf(run, "getOffersByProduct") :
                            run.calls[j].arg = run.products[i].id /\ run.calls[j].ok
        /\ \A i \in CallsAmong(run, EnumerationOps) :
              ~run.calls[i].ok =>
                  /\ run.pc = "done"
                  /\ run.status = 500
                  /\ run.summary.created = 0
                  /\ run.summary.updated = 0
                  /\ run.summary.skipped = 0
                  /\ CallsAmong(run, UnitOps) = {}
                  /\ i = Len(run.calls)

\* A run whose offers fetch failed after its product listing had succeeded
\* answered 500 with nothing counted and no call for a unit.
C35_Witness ==
    \E r \in DOMAIN runs :
        /\ runs[r].status = 500
        /\ \E i \in CallsOf(runs[r], "getAllProducts") : runs[r].calls[i].ok
        /\ \E i \in CallsOf(runs[r], "getOffersByProduct") : ~runs[r].calls[i].ok
        /\ CallsAmong(runs[r], UnitOps) = {}

\* The successful lookups by code of a run for unit k made before call i.
LookupsBefore(run, k, i) ==
    {j \in CallsOf(run, "getGoodByCode") :
        j < i /\ run.calls[j].k = k /\ run.calls[j].ok}

\* The decisions of a run on unit k.
DecisionsOn(run, k) == {e \in DOMAIN run.decided : run.decided[e].k = k}

\* C36: the write of a unit matches its lookup.  A createGood is issued
\* only for a unit whose lookup by code returned null; an updateGood only
\* for a unit whose lookup returned a good, which has the unit's code, and
\* with that good's id; no unit gets both.
C36_WriteMatchesLookup ==
    \A r \in DOMAIN runs :
        LET run == runs[r] IN
        /\ \A i \in CallsOf(run, "createGood") :
              /\ LookupsBefore(run, run.calls[i].k, i) # {}
              /\ \A j \in LookupsBefore(run, run.calls[i].k, i) :
                    ~run.calls[j].arg.found
              /\ \A e \in DecisionsOn(run, run.calls[i].k) : ~run.decided[e].found
        /\ \A i \in CallsOf(run, "updateGood") :
              /\ LookupsBefore(run, run.calls[i].k, i) # {}
              /\ \A j \in LookupsBefore(run, run.calls[i].k, i) :
                    run.calls[j].arg.found
              /\ \E e \in DecisionsOn(run, run.calls[i].k) :
                    /\ run.decided[e].found
                    /\ run.decided[e].existing.id # 0
                    /\ run.decided[e].existing.code =
                          deriveCode(run.units[run.calls[i].k].unit)
                    /\ run.calls[i].arg.id = run.decided[e].existing.id
        /\ \A k \in DOMAIN run.units : CreatesOf(run, k) = {} \/ UpdatesOf(run, k) = {}
        /\ \A k \in DOMAIN run.units :
              Cardinality(CreatesOf(run, k) \cup UpdatesOf(run, k)) <= 1

\* A run created one unit after its lookup returned null and updated
\* another after its lookup returned a good.
C36_Witness ==
    \E r \in DOMAIN runs : \E a, b \in DOMAIN runs[r].units :
        /\ a # b
        /\ CreatesOf(runs[r], a) # {}
        /\ UpdatesOf(runs[r], b) # {}
        /\ \E e \in DecisionsOn(runs[r], b) : runs[r].decided[e].existing.id # 0

\* created + updated + skipped of a run.
Counted(run) == run.summary.created + run.summary.updated + run.summary.skipped

\* How many units the loop of a run is through with.
Processed(run) == Cardinality(Passed(run))

\* C37: summary accounting.  The units processed by a step add at most one
\* to the counters and at most one error each, and at least one of the two;
\* so created + updated + skipped never exceeds the number of units
\* processed, every processed unit is accounted for by a count or an error,
\* and no counter ever decreases.
C37_SummaryAccounting ==
    /\ [](\A r \in DOMAIN runs :
             /\ Counted(runs[r]) <= Processed(runs[r])
             /\ Len(runs[r].summary.errors) <= Processed(runs[r])
             /\ Counted(runs[r]) + Len(runs[r].summary.errors) >= Processed(runs[r]))
    /\ [][\A r \in DOMAIN runs :
             LET old == runs[r]
                 new == runs'[r]
                 units == Processed(new) - Processed(old)
             IN  /\ new.summary.created >= old.summary.created
                 /\ new.summary.updated >= old.summary.updated
                 /\ new.summary.skipped >= old.summary.skipped
                 /\ Len(new.summary.errors) >= Len(old.summary.errors)
                 /\ Counted(new) - Counted(old) <= units
                 /\ Len(new.summary.errors) - Len(old.summary.errors) <= units
                 /\ (Counted(new) - Counted(old))
                       + (Len(new.summary.errors) - Len(old.summary.errors)) >= units]_vars

\* A finished run of three units counted one and recorded two errors, one
\* of them for the unit it counted as skipped.
C37_Witness ==
    \E r \in DOMAIN runs :
        /\ runs[r].pc = "done"
        /\ Processed(runs[r]) = 3
        /\ Counted(runs[r]) = 2
        /\ runs[r].summary.skipped >= 1
        /\ Len(runs[r].summary.errors) = 2

\* A line none of whose lookups found anything.
Unresolved(q, l) == \A j \in LineLookups(q, l) : ~q.lookups[j].found

\* The place among the products of a line that was kept.
PlaceOf(q, l) == Cardinality({m \in KeptLines(q) : m <= l})

\* C38: a line that carries a code or a name and that no lookup of the
\* chain resolved is still in the order, with the POS good's code as sku
\* and the line's quantity divided by 1000 (1 for a line without a
\* quantity); the lines left out are those without code and name.
C38_UnresolvedLineKept ==
    \A r \in DOMAIN reqs :
        LET q == reqs[r] IN
        q.verdict = "accepted" =>
            \A l \in LinesDone(q) :
                LET goodItem == ReceiptOf(q.body).goods[l] IN
                /\ (Unresolved(q, l) /\ (goodItem.code # <<>> \/ goodItem.name # <<>>)) =>
                      /\ l \in KeptLines(q)
                      /\ PlaceOf(q, l) \in DOMAIN q.products
                      /\ q.products[PlaceOf(q, l)].sku = goodItem.code
                      /\ q.products[PlaceOf(q, l)].quantity =
                            Ratio(IF goodItem.quantity # 0 THEN goodItem.quantity
                                                         ELSE 1000, 1000)
                      /\ q.products[PlaceOf(q, l)].name =
                            IF goodItem.name # <<>> THEN goodItem.name ELSE Unknown
                /\ l \notin KeptLines(q) =>
                      goodItem.code = <<>> /\ goodItem.name = <<>>
                /\ Len(q.products) = Cardinality(KeptLines(q))

\* An order was sent with two lines that every lookup missed: one that has
\* only a name, and one that has only a code, kept with that code as sku.
C38_Witness ==
    \E r \in DOMAIN reqs :
        LET q == reqs[r] IN
        /\ "createOrder" \in Range(q.calls)
        /\ Len(q.products) = 2
        /\ \A l \in LinesDone(q) : Unresolved(q, l) /\ LineLookups(q, l) # {}
        /\ q.products[1].sku = <<>>
        /\ q.products[2].sku = SkuZZ
        /\ q.products[2].quantity = Ratio(1000, 1000)

----------------------------------------------------------------------------
(* Claims about the guards of the webhook.                                 *)

\* A delivery that got past the signature check.
Filtered(q) == q.pc # "new" /\ q.verdict # "rejected"

\* The first four guards let the body through: it has a receipt, of type
\* SELL or none, with no order id, whose lines are not all without good id.
PassesFirstFour(body) ==
    /\ HasReceipt(body)
    /\ ToUpperCase(ReceiptOf(body).type) \in {"", "SELL"}
    /\ ReceiptOf(body).order_id = "null"
    /\ \/ ReceiptOf(body).goods = <<>>
       \/ \E i \in DOMAIN ReceiptOf(body).goods :
             ReceiptOf(body).goods[i].good_id # "null"

\* C39: when this system's cashier identity is unknown or the receipt
\* carries none, the cashier guard does not reject: the receipt is accepted
\* if it passes the first four guards.  A receipt without lines passes the
\* fourth guard and is accepted, and no createOrder call is made for it.
C39_UnknownCashierNeverRejects ==
    \A r \in DOMAIN reqs :
        LET q == reqs[r]
            receipt == ReceiptOf(q.body)
        IN  Filtered(q) =>
              /\ (cashierId = "null" \/ receipt.cashier = "null") =>
                    /\ q.reason # "cashier mismatch"
                    /\ PassesFirstFour(q.body) => q.verdict = "accepted"
              /\ (HasReceipt(q.body) /\ receipt.goods = <<>>) =>
                    /\ q.reason # "all good_id null"
                    /\ q.verdict = "accepted" =>
                          /\ q.pc = "SKIPPED"
                          /\ q.calls = <<>>
                          /\ q.sent = <<>>
                          /\ orders = <<>>

\* A receipt without lines from another cashier was accepted while this
\* system's cashier identity was unknown, and ended without an order.
C39_Witness ==
    \E r \in DOMAIN reqs :
        /\ cashierId = "null"
        /\ ReceiptOf(reqs[r].body).cashier = "c2"
        /\ ReceiptOf(reqs[r].body).goods = <<>>
        /\ reqs[r].verdict = "accepted"
        /\ reqs[r].pc = "SKIPPED"

\* A receipt with a line and no cashier identity was accepted by a system
\* that knows its own.
C39_WitnessNoReceiptCashier ==
    \E r \in DOMAIN reqs :
        /\ cashierId = "c1"
        /\ ReceiptOf(reqs[r].body).cashier = "null"
        /\ ReceiptOf(reqs[r].body).goods # <<>>
        /\ reqs[r].verdict = "accepted"

----------------------------------------------------------------------------
(* SpecLive: one reconciliation run and one webhook delivery, with every   *)
(* paginated KeyCRM read taken one page at a time, under the assumption    *)
(* that every awaited remote call eventually returns or fails.             *)

\* `limit`, the page size of the four paginated reads (50 in the source),
\* scaled down so that the fixtures span more than one page.
PageLimit == 2

Least(a, b) == IF a <= b THEN a ELSE b

\* What KeyCRM answers for { limit, page }: res.data.data of a listing.
PageOf(list, page) ==
    SubSeq(list, (page - 1) * PageLimit + 1, Least(page * PageLimit, Len(list)))

\* Mutant of GetProductsPage: the sleep before the next page never resolves.
GetProductsPageSleeps(r) ==
    /\ runs[r].pc = "products"
    /\ LET run == runs[r]
           data == PageOf(catalog, run.page)
           products == run.products \o data
           called == Called(run, "getAllProducts", 0, <<>>, TRUE)
       IN  \/ /\ runs' = [runs EXCEPT ![r] =
                           IF Len(products) >= Len(catalog) \/ Len(data) < PageLimit
                             THEN Enumerate([called EXCEPT !.products = products,
                                                           !.page = 1], 1)
                             ELSE [called EXCEPT !.products = products,
                                                 !.pc = "sleep"]]
              /\ UNCHANGED faults
           \/ /\ faults < MaxFaults
              /\ faults' = faults + 1
              /\ runs' = [runs EXCEPT ![r] =
                            Fatal([Called(run, "getAllProducts", 0, <<>>, FALSE)
                                     EXCEPT !.page = 1])]
    /\ UNCHANGED <<catalog, posGoods, posGroups, varsM, varsW, varsA>>

\* One turn of the loop of getAllProducts: the page is pushed, the loop
\* breaks on `products.length >= data.total || data.data.length < limit`.
GetProductsPage(r) ==
    /\ runs[r].pc = "products"
    /\ LET run == runs[r]
           data == PageOf(catalog, run.page)
           products == run.products \o data
           called == Called(run, "getAllProducts", 0, <<>>, TRUE)
       IN  \/ /\ runs' = [runs EXCEPT ![r] =
                           IF Len(products) >= Len(catalog) \/ Len(data) < PageLimit
                             THEN Enumerate([called EXCEPT !.products = products,
                                                           !.page = 1], 1)
                             ELSE [called EXCEPT !.products = products,
                                                 !.page = @ + 1]]
              /\ UNCHANGED faults
           \/ /\ faults < MaxFaults
              /\ faults' = faults + 1
              /\ runs' = [runs EXCEPT ![r] =
                            Fatal([Called(run, "getAllProducts", 0, <<>>, FALSE)
                                     EXCEPT !.page = 1])]
    /\ UNCHANGED <<catalog, posGoods, posGroups, varsM, varsW, varsA>>

\* One turn of the loop of getOffersByProduct(product.id); the offers of the
\* product become units once the loop has ended.
GetOffersPage(r) ==
    /\ runs[r].pc = "offers"
    /\ LET run == runs[r]
           product == run.products[run.p]
           data == PageOf(product.offers, run.page)
           offers == run.offers \o data
           called == Called(run, "getOffersByProduct", 0, product.id, TRUE)
       IN  \/ /\ runs' = [runs EXCEPT ![r] =
                           IF Len(offers) >= Len(product.offers) \/ Len(data) < PageLimit
                             THEN Enumerate(
                                    [called EXCEPT
                                       !.units = @ \o OfferUnits([product EXCEPT
                                                                    !.offers = offers]),
                                       !.offers = <<>>, !.page = 1],
                                    run.p + 1)
                             ELSE [called EXCEPT !.offers = offers, !.page = @ + 1]]
              /\ UNCHANGED faults
           \/ /\ faults < MaxFaults
              /\ faults' = faults + 1
              /\ runs' = [runs EXCEPT ![r] =
                            Fatal([Called(run, "getOffersByProduct", 0, product.id,
                                          FALSE)
                                     EXCEPT !.offers = <<>>, !.page = 1])]
    /\ UNCHANGED <<catalog, posGoods, posGroups, varsM, varsW, varsA>>

\* One turn of the loop of getOfferByBarcode: a match on the page is
\* returned, `data.length < limit || page * limit >= total` returns null.
BarcodePage(r) ==
    /\ reqs[r].pc = "barcode"
    /\ LET q == Issue(reqs[r], "getOfferByBarcode")
           goodItem == ReceiptOf(q.body).goods[q.i]
           data == PageOf(CrmOffers, q.page)
           k == FirstIndex({i \in DOMAIN data : data[i].barcode = goodItem.barcode})
           left == [q EXCEPT !.page = 1]
       IN  \/ /\ reqs' = [reqs EXCEPT ![r] =
                           IF k # 0
                             THEN FinishLine(Looked(left, TRUE), q.i, AsOffer(data[k]))
                           ELSE IF Len(data) < PageLimit
                                   \/ q.page * PageLimit >= Len(CrmOffers)
                             THEN AfterBarcode(Looked(left, FALSE), q.i)
                           ELSE [q EXCEPT !.page = @ + 1]]
              /\ UNCHANGED faults
           \/ /\ faults < MaxFaults
              /\ faults' = faults + 1
              /\ reqs' = [reqs EXCEPT ![r] = FailTail(Looked(left, FALSE))]
    /\ UNCHANGED <<webhookSecret, cashierId, orders, varsM, varsS, varsA>>

\* One turn of the loop of getProductByName.
NamePage(r) ==
    /\ reqs[r].pc = "name"
    /\ LET q == Issue(reqs[r], "getProductByName")
           goodItem == ReceiptOf(q.body).goods[q.i]
           needle == Trim(ToLowerCase(goodItem.name))
           data == PageOf(CrmProducts, q.page)
           k == FirstIndex({i \in DOMAIN data :
                               Trim(ToLowerCase(data[i].name)) = needle})
           left == [q EXCEPT !.page = 1]
       IN  \/ /\ reqs' = [reqs EXCEPT ![r] =
                           IF k # 0
                             THEN FinishLine(Looked(left, TRUE), q.i,
                                             [found |-> TRUE, sku |-> data[k].sku,
                                              hasProduct |-> TRUE,
                                              productName |-> data[k].name])
                           ELSE IF Len(data) < PageLimit
                                   \/ q.page * PageLimit >= Len(CrmProducts)
                             THEN FinishLine(Looked(left, FALSE), q.i, NoOffer)
                           ELSE [q EXCEPT !.page = @ + 1]]
              /\ UNCHANGED faults
           \/ /\ faults < MaxFaults
              /\ faults' = faults + 1
              /\ reqs' = [reqs EXCEPT ![r] = FailTail(Looked(left, FALSE))]
    /\ UNCHANGED <<webhookSecret, cashierId, orders, varsM, varsS, varsA>>

PKettle ==
    [ CrmProduct(7, Kettle, <<>>, 0, 0) EXCEPT
        !.has_offers = TRUE,
        !.offers = << CrmOffer(8, <<>>, <<"K","1">>, 90000, <<>>),
                      CrmOffer(9, <<>>, <<"K","2">>, 95000, <<>>),
                      CrmOffer(10, <<>>, <<"K","3">>, 99000, <<>>),
                      CrmOffer(13, <<>>, <<"K","4">>, 99900, <<>>) >> ]

\* Listings longer than a page: four products, one of them with four offers.
LiveCatalogs == { <<PTea, PWidget, PGreen, PKettle>> }

LineKettle == SoldLine("g7", <<>>, Barcode9, <<>>, 0, 1000, 900)

LineNoBarcode == SoldLine("g8", <<>>, <<"0">>, <<"N","o","n","e">>, 100, 1000, 100)

LineKettleName == SoldLine("g9", <<>>, <<>>, <<"K","E","T","T","L","E">>, 100, 1000, 100)

LiveSale == SaleReceipt("r1", "SELL", "null", <<LineA1>>, "c1", 3998)

\* The order KeyCRM holds when receipt r1 was submitted by an earlier call.
HeldOrder ==
    [ id |-> 1, payload |-> OrderPayload(LiveSale, <<>>), receipt |-> LiveSale.id,
      status_id |-> 0, client_id |-> 0 ]

LiveReceipts ==
    { LiveSale,
      SaleReceipt("r2", "SELL", "null", <<LineKettle, LineKettleName>>, "c1", 1000),
      SaleReceipt("r3", "SELL", "null", <<LineNoBarcode>>, "c1", 100),
      SaleReceipt("r4", "SELL", "null", <<LineBare>>, "c1", 500),
      SaleReceipt("r5", "RETURN", "null", <<LineA1>>, "c1", 3998) }

LiveBodies ==
    {[callback |-> "receipt_notification", at |-> "receipt", rc |-> rc] :
        rc \in LiveReceipts}

LiveIds == 1..1

InitLive ==
    /\ webhookSecret = ""
    /\ cashierId = "c1"
    /\ reqs = [r \in LiveIds |-> NewReq]
    /\ orders \in {<<>>, <<HeldOrder>>}
    /\ catalog \in LiveCatalogs
    /\ posGoods = <<StaleWidget>>
    /\ posGroups = <<>>
    /\ runs = [r \in LiveIds |-> NewRun]
    /\ faults = 0
    /\ MapperIdle
    /\ AuthIdle

NextLive ==
    \/ \E r \in DOMAIN runs : StartRun(r)
    \/ \E r \in DOMAIN runs : Prefetch(r)
    \/ \E r \in DOMAIN runs : GetProductsPage(r)
    \/ \E r \in DOMAIN runs : GetOffersPage(r)
    \/ \E r \in DOMAIN runs : Lookup(r)
    \/ \E r \in DOMAIN runs : CreateParentGroup(r)
    \/ \E r \in DOMAIN runs : CreateOwnGroup(r)
    \/ \E r \in DOMAIN runs : CreateGood(r)
    \/ \E r \in DOMAIN runs : UpdateGood(r)
    \/ \E r \in DOMAIN reqs : Deliver(r, LiveBodies, {NoSig})
    \/ \E r \in DOMAIN reqs : SkuLookup(r)
    \/ \E r \in DOMAIN reqs : BarcodePage(r)
    \/ \E r \in DOMAIN reqs : NamePage(r)
    \/ \E r \in DOMAIN reqs : CreateOrder(r)
    \/ \E r \in DOMAIN reqs : UpdateOrder(r)

\* The positions at which a run, and the tail of a webhook call, stand at an
\* await of a remote call.
RunAwaits ==
    \E r \in DOMAIN runs :
        runs[r].pc \in {"prefetch", "products", "offers", "lookup", "parentGroup",
                        "ownGroup", "create", "update"}

TailAwaits ==
    \E r \in DOMAIN reqs : reqs[r].pc \in {"sku", "barcode", "name", "create", "update"}

\* The awaited call of a run, and of a tail, returns or fails.
RunReturns ==
    \E r \in DOMAIN runs :
        \/ Prefetch(r)
        \/ GetProductsPage(r)
        \/ GetOffersPage(r)
        \/ Lookup(r)
        \/ CreateParentGroup(r)
        \/ CreateOwnGroup(r)
        \/ CreateGood(r)
        \/ UpdateGood(r)

TailReturns ==
    \E r \in DOMAIN reqs :
        \/ SkuLookup(r)
        \/ BarcodePage(r)
        \/ NamePage(r)
        \/ CreateOrder(r)
        \/ UpdateOrder(r)

\* Every awaited remote call eventually returns or fails; nothing is assumed
\* about when a run is requested or a webhook call arrives.  This is
\* WF_vars(RunReturns) /\ WF_vars(TailReturns) with ENABLED <<RunReturns>>_vars
\* and ENABLED <<TailReturns>>_vars written as the state predicates they
\* equal: a call is awaited exactly at the positions above, and an awaited
\* call can always return (AwaitedCallCanReturn).
CallsReturn ==
    /\ []<>(~RunAwaits) \/ []<><<RunReturns>>_vars
    /\ []<>(~TailAwaits) \/ []<><<TailReturns>>_vars

\* ENABLED of the two fairness actions is the position predicate.
AwaitedCallCanReturn ==
    /\ RunAwaits <=> ENABLED <<RunReturns>>_vars
    /\ TailAwaits <=> ENABLED <<TailReturns>>_vars

SpecLive == InitLive /\ [][NextLive]_vars /\ CallsReturn

----------------------------------------------------------------------------
(* Claims about termination                                                *)

\* The ways the asynchronous tail of an accepted webhook call ends.
TailEnds == {"SUBMITTED", "SKIPPED", "DUPLICATE", "FAILED"}

\* The pages a run or a tail has asked of a paginated read.
PagesAsked(calls, op) == Cardinality({i \in DOMAIN calls : calls[i].op = op})

TailPagesAsked(q, op) == Cardinality({i \in DOMAIN q.calls : q.calls[i] = op})

\* C40: provided every remote call eventually returns or fails and every
\* paginated listing reports a finite total, every reconciliation run
\* eventually sends a response, 200 or 500, and sends no other one after
\* it; and the asynchronous tail of every accepted webhook call eventually
\* ends in SUBMITTED, in a logged skip (no lines, duplicate) or in FAILED,
\* and stays there.
C40_Termination ==
    /\ \A r \in LiveIds :
          runs[r].authorized ~> (runs[r].pc = "done" /\ runs[r].status \in {200, 500})
    /\ \A r \in LiveIds :
          (reqs[r].verdict = "accepted") ~> (reqs[r].pc \in TailEnds)
    /\ [][\A r \in LiveIds :
            /\ runs[r].status # 0 => runs'[r] = runs[r]
            /\ (reqs[r].verdict = "accepted" /\ reqs[r].pc \in TailEnds)
                  => reqs'[r] = reqs[r]]_vars

\* A run that read its products over two pages has answered 200, and a tail
\* that scanned two pages of offers has submitted its order.
C40_Witness ==
    /\ runs[1].pc = "done"
    /\ runs[1].status = 200
    /\ PagesAsked(runs[1].calls, "getAllProducts") = 2
    /\ PagesAsked(runs[1].calls, "getOffersByProduct") = 2
    /\ reqs[1].verdict = "accepted"
    /\ reqs[1].pc = "SUBMITTED"
    /\ TailPagesAsked(reqs[1], "getOfferByBarcode") = 2

====
